---- MODULE Spec2Model ----
(***************************************************************************)
(* Entity telemetry and presentation-cache pipeline of the whois overlay:  *)
(* the Update Scheduler (QueueSnapshotUpdate_RenderThread), the World      *)
(* Snapshot Producer (UpdateSnapshot_GameThread), the Snapshot Exchange    *)
(* (s_snapshot under s_snapshotLock) and the Presentation Cache Manager    *)
(* (Draw, DrawLabel, PruneCacheToSnapshot), as two concurrent contexts:    *)
(* the render thread (pcR) and the game thread (pcG).                      *)
(***************************************************************************)
EXTENDS Integers, Sequences, FiniteSets, TLC

(***************************************************************************)
(* Program constants                                                       *)
(***************************************************************************)
kMaxActors == 16
kMaxScan == 32
kCacheGraceFrames == 60
kReentryThreshold == 30
kPostLoadCooldown == 300
kCloseDistanceThreshold == 100
kBehindCameraDotThreshold == -2   \* -0.2, dot products are scaled by 10
Int32Max == 2147483647
DefaultOcclusionCheckInterval == 3
EndKey == 207
kPositionHistorySize == 8
kLargeMovementThreshold == 50
PosScale == 16        \* positions are held in 1/16 pixel
SettleUnits == 2      \* a settle time is two time units
ValScale == 1000000   \* smoothed scalars are held in millionths
TicksPerChar == 2    \* TypewriterSpeed 30 characters/s at 60 ticks/s

(***************************************************************************)
(* Bounds of the model                                                     *)
(***************************************************************************)
MaxFrame == 1        \* frame-counter cap of the pipeline specification
MaxFrameLong == 63   \* frame-counter cap of the eviction specification
MaxFrameReveal == 35 \* frame-counter cap of the reveal specification
MaxUpdates == 9      \* smoothing ticks applied to one entry
MaxElapsed == 3      \* time units one scalar is smoothed for
MaxCalls == 6        \* successive DrawLabel calls for one entity
MaxSegments == 2     \* quoted strings of a Format value
MaxText == 3         \* characters inside the quotes of a Format value
MaxLines == 3        \* lines of whois.ini
MaxWords == 3        \* symbols of an effect-type value
MaxApplyTasks == 2   \* ApplyIfConfigured tasks queued by hot reloads
MaxApplications == 2 \* times the template appearance is applied
MaxDistance == 500   \* largest camera distance of an occlusion call
MaxHandles == 34     \* longest highActorHandles list of the scan specification
RevealChars == 1     \* characters of a label
MaxReveal == RevealChars * TicksPerChar   \* cap of typewriterTime, in ticks

PlayerID == 1
NullHandle == 0
NPCs == 2..(MaxHandles + 1)
Names == {"Lydia", "Bandit"}

VARIABLES
    \* host world and configuration, read by both contexts
    canDraw,            \* result of CanDrawOverlay()
    actorState,         \* per NPC: "ok", "dead" or "far" (beyond MaxScanDistance)
    actorName,          \* GetDisplayFullName() after Capitalize
    highActorHandles,   \* pl->highActorHandles
    Settings,           \* the Settings:: globals the pipeline reads
    iniFile,            \* what Settings::Load() would read
    hostSerial,         \* the host runs queued tasks only between two frames
    depsMayFail,        \* the player or the process lists can be unavailable
    \* shared program state
    s_updateQueued, taskQueue, s_allowOverlay, s_manualEnabled,
    s_snapshot, s_snapshotLock, s_cache, s_frame,
    s_wasInInvalidState, s_postLoadCooldown, s_reloadKeyWasDown,
    \* render thread (presentation context)
    pcR, localSnap, labelIdx,
    \* game thread (world context)
    pcG, tempBuf, added, scanned, hIdx, cur, cacheIt, pubIdx,
    \* observation (history) variables and the frame cap
    reqDropped, lastPublished, evicted, reloadErased, frameCap,
    \* a call of one of the pure functions: its arguments and its result
    call,
    \* AppearanceTemplate's state and the pending flag of main.cpp
    tmpl,
    \* the statics of Hooks.cpp
    hooks

envVars == <<canDraw, actorState, actorName, highActorHandles, Settings, iniFile,
            hostSerial, depsMayFail>>
schedVars == <<s_updateQueued, taskQueue, reqDropped>>
overlayVars == <<s_allowOverlay, s_manualEnabled>>
snapVars == <<s_snapshot, s_snapshotLock, lastPublished>>
cacheVars == <<s_cache, evicted, reloadErased, cacheIt>>
drawVars == <<s_frame, s_wasInInvalidState, s_postLoadCooldown, s_reloadKeyWasDown>>
rtVars == <<pcR, localSnap, labelIdx>>
scanVars == <<tempBuf, added, scanned, hIdx, cur, pubIdx>>
vars == <<envVars, schedVars, overlayVars, snapVars, cacheVars, drawVars, rtVars,
          pcG, scanVars, frameCap, call, tmpl, hooks>>

(***************************************************************************)
(* Data                                                                    *)
(***************************************************************************)
\* A uint32_t is held as the int with the same 32-bit pattern, so that the
\* values from 2^31 up are the negative ints.  Subtraction and increment
\* wrap, and the order is the unsigned one.
Sub32(a, b) ==
    LET r == a - b
    IN IF r > Int32Max THEN r - Int32Max - Int32Max - 2
       ELSE IF r < -Int32Max - 1 THEN r + Int32Max + Int32Max + 2
       ELSE r
Inc32(a) == IF a = Int32Max THEN -Int32Max - 1 ELSE a + 1
ULess(a, b) == IF (a >= 0) = (b >= 0) THEN a < b ELSE b < 0

\* ActorDrawData, with the fields the pipeline itself reads
ActorDrawData(id, nm, isP, occ) ==
    [formID |-> id, name |-> nm, isPlayer |-> isP, isOccluded |-> occ]

\* a value-initialized ActorCache
ActorCache ==
    [initialized |-> FALSE, lastSeenFrame |-> 0,
     lastOcclusionCheckFrame |-> 0, cachedOccluded |-> FALSE, wasOccluded |-> FALSE,
     typewriterTime |-> 0, typewriterComplete |-> FALSE, cachedName |-> ""]

\* AppearanceTemplate::TemplateState after construction, with
\* s_pendingAppearanceApply, the tasks queued by a hot reload, and the
\* observation fields: how often the appearance was applied to the player,
\* the outcome of the last ApplyIfConfigured call and whether the settings
\* were reloaded since the last application
TemplateState ==
    [applied |-> FALSE, pending |-> FALSE, applyTasks |-> 0,
     applications |-> 0, last |-> "none", reloaded |-> FALSE]

\* what happened in the presented frame under way: the PostDisplay hook ran,
\* s_manualEnabled when it started, the overlay should be rendered, the
\* Draw calls made from each hook, Present was called
FreshFrame ==
    [postDisplay |-> FALSE, enabledAtStart |-> TRUE, wanted |-> FALSE,
     byPostDisplay |-> 0, byPresent |-> 0, presented |-> FALSE]

\* the flags of Hooks.cpp after construction, with the position of the render
\* thread inside RenderOverlayNow (pc, by) and the observation fields: imgui
\* (the ImGui context and both backends are initialized), inits (runs of the
\* initialization body), bare (ImGui frame code ran without imgui), what the
\* last ToggleEnabled found and returned, and the frame under way
HooksState ==
    [initialized |-> FALSE, shouldRenderOverlay |-> FALSE,
     overlayRenderedThisFrame |-> FALSE,
     pc |-> "idle", by |-> "none",
     imgui |-> FALSE, inits |-> 0, bare |-> FALSE,
     toggleFound |-> FALSE, toggleResult |-> TRUE,
     frame |-> FreshFrame]

\* no cache iterator held
NoIt == [found |-> FALSE, valid |-> FALSE, reuse |-> {}]
NoRecord == ActorDrawData(NullHandle, "", FALSE, FALSE)
\* no pure function under call
NoCall == [fn |-> "none"]

SnapIDs(snap) == {snap[i].formID : i \in 1..Len(snap)}

(***************************************************************************)
(* Occlusion subsystem.  dist is the camera-to-anchor distance, dot10 the  *)
(* dot product with the camera forward vector scaled by 10, losOk whether  *)
(* the host line-of-sight query succeeded and los its answer.              *)
(***************************************************************************)
IsBehindCamera_Inclusive(dist, dot10) ==
    IF dist = 0 THEN FALSE ELSE dot10 <= kBehindCameraDotThreshold
IsBehindCamera(dist, dot10) ==
    IF dist = 0 THEN FALSE ELSE dot10 < kBehindCameraDotThreshold

HasLineOfSightToActor(playerOk, actorOk, losOk, los) ==
    IF ~playerOk \/ ~actorOk THEN TRUE
    ELSE IF losOk THEN los ELSE TRUE

\* lines 10-16: GetCameraInfo succeeds when the camera and its root exist
GetCameraInfo_Always(cameraOk) == TRUE
GetCameraInfo(cameraOk) == cameraOk

\* line 90: very close actors are always visible
IsClose_Never(dist) == FALSE
IsClose(dist) == dist < kCloseDistanceThreshold

IsActorOccluded(enabled, actorOk, playerOk, cameraOk, dist, dot10, losOk, los) ==
    IF ~enabled \/ ~actorOk \/ ~playerOk THEN FALSE
    ELSE IF ~GetCameraInfo(cameraOk) THEN FALSE
    ELSE IF IsClose(dist) THEN FALSE
    ELSE IF IsBehindCamera(dist, dot10) THEN TRUE
    ELSE ~HasLineOfSightToActor(playerOk, actorOk, losOk, los)

\* inputs of one occlusion check made by the Producer, one for each path of
\* IsActorOccluded: <<cameraOk, dist, dot10, losOk, los>>
ProducerOcclusionInputs ==
    {<<FALSE, 150, 10, TRUE, TRUE>>, <<TRUE, 99, -10, TRUE, FALSE>>,
     <<TRUE, 150, -3, TRUE, TRUE>>, <<TRUE, 150, 10, TRUE, FALSE>>,
     <<TRUE, 150, 10, TRUE, TRUE>>, <<TRUE, 150, 10, FALSE, FALSE>>}

(***************************************************************************)
(* Update Scheduler                                                        *)
(***************************************************************************)
\* s_updateQueued.exchange(true): the value found
AlreadyQueued_Never(flag) == FALSE
AlreadyQueued(flag) == flag

\* ~ClearFlag(): the value stored into s_updateQueued
ClearFlag_Skip(flag) == flag
ClearFlag(flag) == FALSE

\* std::lock_guard on s_snapshotLock can be taken
CanAcquire_NoMutex(lock) == TRUE
CanAcquire(lock) == lock = "none"

\* Producer invocations queued or running
InFlight == taskQueue + (IF pcG = "idle" THEN 0 ELSE 1)

\* QueueSnapshotUpdate_RenderThread, taskOk: SKSE::GetTaskInterface() != nullptr
QueueSnapshotUpdate_RenderThread(taskOk) ==
    IF AlreadyQueued(s_updateQueued)
    THEN /\ s_updateQueued' = TRUE
         /\ reqDropped' = TRUE
         /\ UNCHANGED taskQueue
    ELSE IF taskOk
    THEN /\ s_updateQueued' = TRUE
         /\ taskQueue' = taskQueue + 1
         /\ reqDropped' = FALSE
    ELSE /\ s_updateQueued' = FALSE
         /\ reqDropped' = FALSE
         /\ UNCHANGED taskQueue

\* TickRT, called by the PostDisplay hook when CanDrawOverlay() holds
TickRT ==
    /\ pcR = "idle"
    /\ hostSerial => pcG = "idle"
    /\ canDraw
    /\ \E taskOk \in BOOLEAN : QueueSnapshotUpdate_RenderThread(taskOk)
    /\ UNCHANGED <<envVars, overlayVars, snapVars, cacheVars, drawVars, rtVars,
                   pcG, scanVars, frameCap, call, tmpl, hooks>>

\* the host runs a queued task on the game thread
RunTask ==
    /\ pcG = "idle"
    /\ hostSerial => pcR = "idle"
    /\ taskQueue > 0
    /\ taskQueue' = taskQueue - 1
    /\ pcG' = "start"
    /\ UNCHANGED <<envVars, s_updateQueued, reqDropped, overlayVars, snapVars, cacheVars,
                   drawVars, rtVars, scanVars, frameCap, call, tmpl, hooks>>

(***************************************************************************)
(* World Snapshot Producer: UpdateSnapshot_GameThread                      *)
(***************************************************************************)
\* the viewer's own record
PlayerRecord == ActorDrawData(PlayerID, actorName[PlayerID], TRUE, FALSE)

\* loop condition "added >= kMaxActors || scanned++ >= kMaxScan"
LimitReached_Never(a, s) == FALSE
LimitReached(a, s) == a >= kMaxActors \/ s >= kMaxScan

\* scanned after evaluating the loop condition (short-circuit ||)
ScannedAfterCheck(a, s) == IF a >= kMaxActors THEN s ELSE s + 1

\* "continue" filters: invalid handle, the player itself, dead, too far
SkipActor_KeepPlayer(h) ==
    \/ h = NullHandle
    \/ h # PlayerID /\ actorState[h] = "dead"
    \/ h # PlayerID /\ actorState[h] = "far"
SkipActor(h) ==
    \/ h = NullHandle
    \/ h = PlayerID
    \/ actorState[h] = "dead"
    \/ actorState[h] = "far"

\* the cached occlusion result of entity id may be reused
UseCachedOcclusion(cache, id, frame, interval) ==
    /\ id \in DOMAIN cache
    /\ cache[id].initialized
    /\ ULess(Sub32(frame, cache[id].lastOcclusionCheckFrame), interval)

\* the two fields the write-back stores
OcclusionWriteBack_AlsoWasOccluded(entry, frame, occ) ==
    [entry EXCEPT !.lastOcclusionCheckFrame = frame, !.cachedOccluded = occ,
                  !.wasOccluded = occ]
OcclusionWriteBack(entry, frame, occ) ==
    [entry EXCEPT !.lastOcclusionCheckFrame = frame, !.cachedOccluded = occ]

\* lines 592-652: overlay gate, dependencies, the player's record
ProducerStart ==
    /\ pcG = "start"
    /\ s_allowOverlay' = canDraw
    /\ \E depsOk \in (IF depsMayFail THEN BOOLEAN ELSE {TRUE}) :
         IF ~canDraw \/ ~depsOk
         THEN /\ pcG' = "clear"
              /\ UNCHANGED scanVars
         ELSE /\ pcG' = "scan"
              /\ tempBuf' = IF Settings.HidePlayer THEN <<>> ELSE <<PlayerRecord>>
              /\ added' = 1
              /\ scanned' = 0
              /\ hIdx' = 1
              /\ UNCHANGED <<cur, pubIdx>>
    /\ UNCHANGED <<envVars, schedVars, s_manualEnabled, snapVars, cacheVars, drawVars,
                   rtVars, frameCap, call, tmpl, hooks>>

\* lines 600 and 610: s_snapshot.clear()
ClearedSnapshot_Keep(snap) == snap
ClearedSnapshot(snap) == <<>>

\* lines 596-612: an early return clears the snapshot under the lock
ProducerClear ==
    /\ pcG = "clear"
    /\ CanAcquire(s_snapshotLock)
    /\ s_snapshot' = ClearedSnapshot(s_snapshot)
    /\ lastPublished' = ClearedSnapshot(s_snapshot)
    /\ pcG' = "ret"
    /\ UNCHANGED <<envVars, schedVars, overlayVars, s_snapshotLock, cacheVars, drawVars,
                   rtVars, scanVars, frameCap, call, tmpl, hooks>>

\* lines 658-731 and 748-749: one iteration of the scan loop up to the
\* occlusion check
ProducerScan ==
    /\ pcG = "scan"
    /\ IF hIdx > Len(highActorHandles)
       THEN /\ pcG' = "publish"
            /\ UNCHANGED <<scanVars, cacheIt>>
       ELSE IF LimitReached(added, scanned)
       THEN /\ pcG' = "publish"
            /\ scanned' = ScannedAfterCheck(added, scanned)
            /\ UNCHANGED <<tempBuf, added, hIdx, cur, pubIdx, cacheIt>>
       ELSE LET h == highActorHandles[hIdx]
                d == ActorDrawData(h, actorName[h], FALSE, FALSE)
            IN /\ scanned' = ScannedAfterCheck(added, scanned)
               /\ hIdx' = hIdx + 1
               /\ UNCHANGED pubIdx
               /\ IF SkipActor(h)
                  THEN /\ pcG' = "scan"
                       /\ UNCHANGED <<tempBuf, added, cur, cacheIt>>
                  ELSE IF ~Settings.EnableOcclusionCulling
                  THEN /\ pcG' = "scan"
                       /\ tempBuf' = Append(tempBuf, d)
                       /\ added' = added + 1
                       /\ UNCHANGED <<cur, cacheIt>>
                  ELSE IF UseCachedOcclusion(s_cache, h, s_frame,
                                             Settings.OcclusionCheckInterval)
                  THEN /\ pcG' = "scan"
                       /\ tempBuf' = Append(tempBuf,
                              [d EXCEPT !.isOccluded = s_cache[h].cachedOccluded])
                       /\ added' = added + 1
                       /\ UNCHANGED <<cur, cacheIt>>
                  ELSE /\ pcG' = "occl"
                       /\ cur' = d
                       /\ cacheIt' = [found |-> h \in DOMAIN s_cache,
                                      valid |-> h \in DOMAIN s_cache, reuse |-> {}]
                       /\ UNCHANGED <<tempBuf, added>>
    /\ UNCHANGED <<envVars, schedVars, overlayVars, snapVars, s_cache, evicted,
                   reloadErased, drawVars, rtVars, frameCap, call, tmpl, hooks>>

\* lines 733-749: the occlusion check, its write-back through cacheIt and
\* the push_back.  A write through an iterator whose node was erased lands
\* in freed memory: it is lost, or hits the entry that reuses the node.
ProducerOcclusion ==
    /\ pcG = "occl"
    /\ \E in \in ProducerOcclusionInputs :
         LET occ == IsActorOccluded(Settings.EnableOcclusionCulling, TRUE, TRUE,
                                    in[1], in[2], in[3], in[4], in[5])
             id == cur.formID
         IN /\ tempBuf' = Append(tempBuf, [cur EXCEPT !.isOccluded = occ])
            /\ IF ~cacheIt.found
               THEN UNCHANGED s_cache
               ELSE IF cacheIt.valid
               THEN s_cache' = [s_cache EXCEPT
                                   ![id] = OcclusionWriteBack(@, s_frame, occ)]
               ELSE \E tgt \in (cacheIt.reuse \cap DOMAIN s_cache) \cup {NullHandle} :
                       IF tgt = NullHandle
                       THEN UNCHANGED s_cache
                       ELSE s_cache' = [s_cache EXCEPT
                                   ![tgt] = OcclusionWriteBack(@, s_frame, occ)]
    /\ added' = added + 1
    /\ cur' = NoRecord
    /\ cacheIt' = NoIt
    /\ pcG' = "scan"
    /\ UNCHANGED <<envVars, schedVars, overlayVars, snapVars, evicted, reloadErased,
                   drawVars, rtVars,
                   scanned, hIdx, pubIdx, frameCap, call, tmpl, hooks>>

\* lines 754-757: "s_snapshot = tempBuf" under the lock, element by element
PublishLock ==
    /\ pcG = "publish"
    /\ CanAcquire(s_snapshotLock)
    /\ s_snapshotLock' = "game"
    /\ pubIdx' = 0
    /\ pcG' = "publishing"
    /\ UNCHANGED <<envVars, schedVars, overlayVars, s_snapshot, lastPublished, cacheVars,
                   drawVars,
                   rtVars, tempBuf, added, scanned, hIdx, cur, frameCap, call, tmpl, hooks>>

PublishWrite ==
    /\ pcG = "publishing"
    /\ pubIdx < Len(tempBuf)
    /\ s_snapshot' = IF pubIdx + 1 <= Len(s_snapshot)
                     THEN [s_snapshot EXCEPT ![pubIdx + 1] = tempBuf[pubIdx + 1]]
                     ELSE Append(s_snapshot, tempBuf[pubIdx + 1])
    /\ pubIdx' = pubIdx + 1
    /\ UNCHANGED <<envVars, schedVars, overlayVars, s_snapshotLock, lastPublished,
                   cacheVars, drawVars, rtVars, pcG, tempBuf, added, scanned, hIdx, cur,
                   frameCap, call, tmpl, hooks>>

PublishUnlock ==
    /\ pcG = "publishing"
    /\ pubIdx = Len(tempBuf)
    /\ s_snapshot' = SubSeq(s_snapshot, 1, Len(tempBuf))
    /\ s_snapshotLock' = "none"
    /\ lastPublished' = tempBuf
    /\ pcG' = "ret"
    /\ UNCHANGED <<envVars, schedVars, overlayVars, cacheVars, drawVars,
                   rtVars, scanVars, frameCap, call, tmpl, hooks>>

\* lines 587-590: ~ClearFlag() runs last, after the lock_guard is gone; the
\* locals of the invocation die with it
ProducerReturn ==
    /\ pcG = "ret"
    /\ s_updateQueued' = ClearFlag(s_updateQueued)
    /\ pcG' = "idle"
    /\ added' = 0
    /\ scanned' = 0
    /\ hIdx' = 1
    /\ pubIdx' = 0
    /\ UNCHANGED <<envVars, taskQueue, reqDropped, overlayVars, snapVars, cacheVars,
                   drawVars, rtVars, tempBuf, cur, frameCap, call, tmpl, hooks>>

(***************************************************************************)
(* Presentation Cache Manager: DrawLabel and PruneCacheToSnapshot          *)
(***************************************************************************)
\* what happens to the projected label: WorldToScreen fails (line 1036),
\* alpha <= 0.02 (line 1120), off-screen (line 1132), or it is rendered
Stages == {"noProject", "faded", "offscreen", "drawn"}

\* lines 948-956: find or emplace, then "always update last seen"
FindOrEmplace(cache, id, frame) ==
    [(IF id \in DOMAIN cache THEN cache[id] ELSE ActorCache)
        EXCEPT !.lastSeenFrame = frame]

\* lines 958-964: a name change resets the reveal
NameChangeReset(e, d) ==
    IF e.cachedName # d.name
    THEN [e EXCEPT !.cachedName = d.name, !.typewriterTime = 0,
                   !.typewriterComplete = FALSE]
    ELSE e

\* lines 966-978: re-entry and became-visible reset; lastSeenFrame was
\* already overwritten at line 956
ReentryReset(e, d, frame) ==
    IF e.initialized /\ e.typewriterComplete
    THEN LET framesSinceLastSeen == Sub32(frame, e.lastSeenFrame)
             becameVisible == e.wasOccluded /\ ~d.isOccluded
         IN IF ~ULess(framesSinceLastSeen, kReentryThreshold) \/ becameVisible
            THEN [e EXCEPT !.typewriterTime = 0, !.typewriterComplete = FALSE]
            ELSE e
    ELSE e

\* lines 1042-1114: first-sight initialization or smoothing tick (dt is
\* one tick), then the occlusion state is recorded
InitOrSmooth(e, d, typewriter) ==
    LET e1 == IF ~e.initialized
              THEN [e EXCEPT !.initialized = TRUE, !.typewriterTime = 0,
                             !.typewriterComplete = FALSE]
              ELSE IF typewriter /\ ~e.typewriterComplete
              THEN [e EXCEPT !.typewriterTime = @ + 1]
              ELSE e
    IN [e1 EXCEPT !.wasOccluded = d.isOccluded]

\* lines 1405-1416 and 1531-1534: characters revealed so far (delay 0,
\* typewriterTime in ticks) against the label's length
RevealComplete(e, typewriter) ==
    IF typewriter /\ ~e.typewriterComplete
       /\ e.typewriterTime \div TicksPerChar >= RevealChars
    THEN [e EXCEPT !.typewriterComplete = TRUE]
    ELSE e

\* the cache entry of d.formID after DrawLabel(d)
DrawLabelEntry(cache, d, frame, stage, typewriter) ==
    LET e3 == ReentryReset(NameChangeReset(FindOrEmplace(cache, d.formID, frame), d),
                           d, frame)
    IN IF stage = "noProject" THEN e3
       ELSE IF stage \in {"faded", "offscreen"} THEN InitOrSmooth(e3, d, typewriter)
       ELSE RevealComplete(InitOrSmooth(e3, d, typewriter), typewriter)

\* the cache after DrawLabel(d)
DrawLabel(cache, d, frame, stage, typewriter) ==
    [id \in DOMAIN cache \cup {d.formID} |->
        IF id = d.formID THEN DrawLabelEntry(cache, d, frame, stage, typewriter)
        ELSE cache[id]]

\* a stage that keeps typewriterTime within its cap
StageAllowed(cache, d, stage, typewriter) ==
    IF stage \in {"noProject", "drawn"} \/ ~typewriter \/ d.formID \notin DOMAIN cache
    THEN TRUE
    ELSE cache[d.formID].typewriterTime < MaxReveal

\* line 805: the grace period of an entry has expired
GraceExpired_Late(gap) == ULess(kCacheGraceFrames + 1, gap)
GraceExpired(gap) == ULess(kCacheGraceFrames, gap)

\* the keys PruneCacheToSnapshot erases
PruneErased(cache, snap, frame) ==
    {id \in DOMAIN cache :
        /\ id \notin SnapIDs(snap)
        /\ GraceExpired(Sub32(frame, cache[id].lastSeenFrame))}

\* the cache after PruneCacheToSnapshot(snap)
PruneCacheToSnapshot(cache, snap, frame) ==
    [id \in DOMAIN cache \ PruneErased(cache, snap, frame) |->
        IF id \in SnapIDs(snap)
        THEN [cache[id] EXCEPT !.lastSeenFrame = frame]
        ELSE cache[id]]

\* the game thread's iterator after the render thread changed the cache:
\* erasing its node invalidates it; nodes emplaced afterwards may reuse it
ItAfter(newCache) ==
    IF pcG = "occl" /\ cacheIt.found
    THEN LET removed == DOMAIN s_cache \ DOMAIN newCache
             emplaced == DOMAIN newCache \ DOMAIN s_cache
             stillValid == cacheIt.valid /\ cur.formID \notin removed
         IN [found |-> TRUE,
             valid |-> stillValid,
             reuse |-> IF stillValid THEN {}
                       ELSE (cacheIt.reuse \ removed) \cup
                            (IF cacheIt.valid THEN {} ELSE emplaced)]
    ELSE cacheIt

(***************************************************************************)
(* Renderer::Draw                                                          *)
(***************************************************************************)
IsOverlayAllowedRT_IgnoreManual == s_allowOverlay
IsOverlayAllowedRT == s_manualEnabled /\ s_allowOverlay

\* Settings::Load(): the settings as the INI file gives them
LoadSettings(ini) == ini

\* line 1982: s_cache.clear()
ClearCache_KeepPlayer(cache) == [id \in DOMAIN cache \cap {PlayerID} |-> cache[id]]
ClearCache(cache) == << >>

\* AppearanceTemplate::ResetAppliedFlag
ResetAppliedFlag(t) == [t EXCEPT !.applied = FALSE]

\* lines 1985-1991: after Settings::Load(), with the new settings
ReloadTemplate(t, settings) ==
    LET t1 == [t EXCEPT !.reloaded = TRUE, !.last = "none"]
    IN IF settings.TemplateReapplyOnReload /\ settings.UseTemplateAppearance
       THEN [ResetAppliedFlag(t1) EXCEPT !.applyTasks = t1.applyTasks + 1]
       ELSE t1

\* lines 1969-2029: hot reload, overlay gate, post-load cooldown, update
\* request, renderer check, frame counter
DrawBody ==
    /\ pcR = "idle"
    /\ hostSerial => pcG = "idle"
    /\ \E keyDown \in BOOLEAN, taskOk \in BOOLEAN, rendererOk \in BOOLEAN :
         LET reload == Settings.ReloadKey > 0 /\ keyDown /\ ~s_reloadKeyWasDown
             cache1 == IF reload THEN ClearCache(s_cache) ELSE s_cache
         IN /\ Settings' = IF reload THEN LoadSettings(iniFile) ELSE Settings
            /\ s_cache' = cache1
            /\ reloadErased' = DOMAIN s_cache \ DOMAIN cache1
            /\ tmpl' = IF reload THEN ReloadTemplate(tmpl, LoadSettings(iniFile)) ELSE tmpl
            /\ tmpl'.applyTasks <= MaxApplyTasks
            /\ cacheIt' = ItAfter(cache1)
            /\ s_reloadKeyWasDown' =
                   IF Settings.ReloadKey > 0 THEN keyDown ELSE s_reloadKeyWasDown
            /\ IF ~canDraw
               THEN /\ s_wasInInvalidState' = TRUE
                    /\ UNCHANGED <<s_postLoadCooldown, schedVars, s_frame, pcR>>
               ELSE /\ s_wasInInvalidState' = FALSE
                    /\ LET cd == IF s_wasInInvalidState THEN kPostLoadCooldown
                                 ELSE s_postLoadCooldown
                       IN IF cd > 0
                          THEN /\ s_postLoadCooldown' = cd - 1
                               /\ UNCHANGED <<schedVars, s_frame, pcR>>
                          ELSE /\ s_postLoadCooldown' = cd
                               /\ QueueSnapshotUpdate_RenderThread(taskOk)
                               /\ IF ~rendererOk
                                  THEN UNCHANGED <<s_frame, pcR>>
                                  ELSE /\ s_frame < frameCap
                                       /\ s_frame' = Inc32(s_frame)
                                       /\ pcR' = "copy"
    /\ UNCHANGED <<canDraw, actorState, actorName, highActorHandles, iniFile, hostSerial, depsMayFail,
                   overlayVars,
                   snapVars, evicted, localSnap, labelIdx, pcG, scanVars, frameCap, call>>

\* Draw as the PostDisplay hook calls it on every frame on which
\* IsOverlayAllowedRT() holds
DrawBegin ==
    /\ IsOverlayAllowedRT
    /\ DrawBody
    /\ UNCHANGED hooks

\* lines 2031-2041: copy the snapshot under the lock; nothing to draw if empty
DrawCopy ==
    /\ pcR = "copy"
    /\ CanAcquire(s_snapshotLock)
    /\ localSnap' = s_snapshot
    /\ labelIdx' = 1
    /\ pcR' = IF s_snapshot = << >> THEN "idle" ELSE "labels"
    /\ UNCHANGED <<envVars, schedVars, overlayVars, snapVars, cacheVars, drawVars,
                   pcG, scanVars, frameCap, call, tmpl, hooks>>

\* lines 2085-2088: DrawLabel for the next record of the copy
DrawLabelStep ==
    /\ pcR = "labels"
    /\ labelIdx <= Len(localSnap)
    /\ \E stage \in Stages :
         LET d == localSnap[labelIdx]
             cache1 == DrawLabel(s_cache, d, s_frame, stage, Settings.EnableTypewriter)
         IN /\ StageAllowed(s_cache, d, stage, Settings.EnableTypewriter)
            /\ s_cache' = cache1
            /\ cacheIt' = ItAfter(cache1)
    /\ labelIdx' = labelIdx + 1
    /\ UNCHANGED <<envVars, schedVars, overlayVars, snapVars, evicted, reloadErased,
                   drawVars,
                   pcR, localSnap, pcG, scanVars, frameCap, call, tmpl, hooks>>

\* lines 2090-2096: after the last label, the eviction sweep
DrawPrune ==
    /\ pcR = "labels"
    /\ labelIdx > Len(localSnap)
    /\ LET cache1 == PruneCacheToSnapshot(s_cache, localSnap, s_frame)
       IN /\ s_cache' = cache1
          /\ cacheIt' = ItAfter(cache1)
          /\ evicted' = PruneErased(s_cache, localSnap, s_frame)
          /\ UNCHANGED reloadErased
    /\ pcR' = "idle"
    /\ labelIdx' = 1
    /\ UNCHANGED <<envVars, schedVars, overlayVars, snapVars, drawVars,
                   localSnap, pcG, scanVars, frameCap, call, tmpl, hooks>>

(***************************************************************************)
(* Host environment                                                        *)
(***************************************************************************)
\* the game enters a state in which CanDrawOverlay() fails (menu, loading,
\* combat)
OverlayBlocked ==
    /\ canDraw
    /\ canDraw' = FALSE
    /\ UNCHANGED <<actorState, actorName, highActorHandles, Settings, iniFile, hostSerial, depsMayFail,
                   schedVars, overlayVars, snapVars, cacheVars, drawVars, rtVars,
                   pcG, scanVars, frameCap, call, tmpl, hooks>>

\* the game returns to a state in which CanDrawOverlay() holds
OverlayUnblocked ==
    /\ ~canDraw
    /\ canDraw' = TRUE
    /\ UNCHANGED <<actorState, actorName, highActorHandles, Settings, iniFile, hostSerial, depsMayFail,
                   schedVars, overlayVars, snapVars, cacheVars, drawVars, rtVars,
                   pcG, scanVars, frameCap, call, tmpl, hooks>>

\* an actor of the process list leaves or re-enters the scan radius
WorldChange ==
    /\ \E i \in 1..Len(highActorHandles), st \in {"ok", "far"} :
         /\ highActorHandles[i] \in NPCs
         /\ actorState[highActorHandles[i]] # st
         /\ actorState' = [actorState EXCEPT ![highActorHandles[i]] = st]
    /\ UNCHANGED <<canDraw, actorName, highActorHandles, Settings, iniFile, hostSerial, depsMayFail,
                   schedVars, overlayVars, snapVars, cacheVars, drawVars, rtVars,
                   pcG, scanVars, frameCap, call, tmpl, hooks>>

(***************************************************************************)
(* Specifications                                                          *)
(***************************************************************************)
DefaultName(id) == IF id = PlayerID THEN "Player" ELSE "Lydia"

\* the Settings:: defaults of Settings.cpp, with the given overrides
SettingsWith(hide, occl, key, typewriter) ==
    [HidePlayer |-> hide, EnableOcclusionCulling |-> occl,
     OcclusionCheckInterval |-> DefaultOcclusionCheckInterval,
     ReloadKey |-> key, EnableTypewriter |-> typewriter,
     UseTemplateAppearance |-> FALSE, TemplateConfigured |-> FALSE,
     TemplateReapplyOnReload |-> FALSE]

\* the statics of Renderer.cpp after construction
InitProgram ==
    /\ s_updateQueued = FALSE
    /\ taskQueue = 0
    /\ s_allowOverlay = FALSE
    /\ s_manualEnabled = TRUE
    /\ s_snapshot = << >>
    /\ s_snapshotLock = "none"
    /\ s_cache = << >>
    /\ s_frame = 0
    /\ s_wasInInvalidState = TRUE
    /\ s_postLoadCooldown = 0
    /\ s_reloadKeyWasDown = FALSE
    /\ pcR = "idle"
    /\ localSnap = << >>
    /\ labelIdx = 1
    /\ pcG = "idle"
    /\ tempBuf = << >>
    /\ added = 0
    /\ scanned = 0
    /\ hIdx = 1
    /\ cur = NoRecord
    /\ cacheIt = NoIt
    /\ pubIdx = 0
    /\ reqDropped = FALSE
    /\ lastPublished = << >>
    /\ evicted = {}
    /\ reloadErased = {}
    /\ tmpl = TemplateState
    /\ hooks = HooksState

\* the statics once the game is loaded, a first Producer run has found the
\* overlay allowed and the post-load cooldown has run out
InitLoaded ==
    /\ s_updateQueued = FALSE
    /\ taskQueue = 0
    /\ s_allowOverlay = TRUE
    /\ s_manualEnabled = TRUE
    /\ s_snapshot = << >>
    /\ s_snapshotLock = "none"
    /\ s_cache = << >>
    /\ s_frame = 0
    /\ s_wasInInvalidState = FALSE
    /\ s_postLoadCooldown = 0
    /\ s_reloadKeyWasDown = FALSE
    /\ pcR = "idle"
    /\ localSnap = << >>
    /\ labelIdx = 1
    /\ pcG = "idle"
    /\ tempBuf = << >>
    /\ added = 0
    /\ scanned = 0
    /\ hIdx = 1
    /\ cur = NoRecord
    /\ cacheIt = NoIt
    /\ pubIdx = 0
    /\ reqDropped = FALSE
    /\ lastPublished = << >>
    /\ evicted = {}
    /\ reloadErased = {}
    /\ tmpl = TemplateState
    /\ hooks = [HooksState EXCEPT !.initialized = TRUE, !.imgui = TRUE]

\* the world of a process list: every listed NPC alive and in range
InitWorld(handles) ==
    /\ highActorHandles = handles
    /\ actorState = [id \in {handles[i] : i \in 1..Len(handles)} \cap NPCs |-> "ok"]
    /\ actorName = [id \in {handles[i] : i \in 1..Len(handles)} \cup {PlayerID}
                        |-> DefaultName(id)]

\* the pipeline with both contexts, occlusion culling and hot reload
Init ==
    /\ InitLoaded
    /\ canDraw = TRUE
    /\ InitWorld(<<2>>)
    /\ Settings = SettingsWith(FALSE, TRUE, EndKey, FALSE)
    /\ iniFile = Settings
    /\ hostSerial = FALSE
    /\ depsMayFail = TRUE
    /\ frameCap = MaxFrame
    /\ call = NoCall

Next ==
    \/ TickRT
    \/ RunTask
    \/ ProducerStart
    \/ ProducerClear
    \/ ProducerScan
    \/ ProducerOcclusion
    \/ PublishLock
    \/ PublishWrite
    \/ PublishUnlock
    \/ ProducerReturn
    \/ DrawBegin
    \/ DrawCopy
    \/ DrawLabelStep
    \/ DrawPrune
    \/ OverlayBlocked
    \/ WorldChange

Spec == Init /\ [][Next]_vars

\* cache lifetime over many frames: one NPC that comes and goes, the player
\* shown or hidden, occlusion culling and the reload key disabled, the host
\* running the Producer between frames
InitEvict ==
    /\ InitLoaded
    /\ canDraw = TRUE
    /\ InitWorld(<<2>>)
    /\ \E hide \in BOOLEAN : Settings = SettingsWith(hide, FALSE, 0, FALSE)
    /\ iniFile = Settings
    /\ hostSerial = TRUE
    /\ depsMayFail = FALSE
    /\ frameCap = MaxFrameLong
    /\ call = NoCall

NextEvict ==
    \/ RunTask
    \/ ProducerStart
    \/ ProducerScan
    \/ PublishLock
    \/ PublishWrite
    \/ PublishUnlock
    \/ ProducerReturn
    \/ DrawBegin
    \/ DrawCopy
    \/ DrawLabelStep
    \/ DrawPrune
    \/ WorldChange

SpecEvict == InitEvict /\ [][NextEvict]_vars

\* the same with the reload key configured: the user can reload the
\* settings on any frame
InitReload ==
    /\ InitLoaded
    /\ canDraw = TRUE
    /\ InitWorld(<<2>>)
    /\ \E hide \in BOOLEAN : Settings = SettingsWith(hide, FALSE, EndKey, FALSE)
    /\ iniFile = Settings
    /\ hostSerial = TRUE
    /\ depsMayFail = FALSE
    /\ frameCap = MaxFrameLong
    /\ call = NoCall

SpecReload == InitReload /\ [][NextEvict]_vars

\* the same with the reveal (typewriter) animation enabled
InitReveal ==
    /\ InitLoaded
    /\ canDraw = TRUE
    /\ InitWorld(<<2>>)
    /\ \E hide \in BOOLEAN : Settings = SettingsWith(hide, FALSE, 0, TRUE)
    /\ iniFile = Settings
    /\ hostSerial = TRUE
    /\ depsMayFail = FALSE
    /\ frameCap = MaxFrameReveal
    /\ call = NoCall

SpecReveal == InitReveal /\ [][NextEvict]_vars

\* the scan loop on long process lists: n handles of which the first k are
\* filtered out (stale handle, the player itself, dead, out of range) and
\* the others accepted; only TickRT requests updates
ScanHandle(i, k) ==
    IF i <= k /\ i % 4 = 1 THEN NullHandle
    ELSE IF i <= k /\ i % 4 = 2 THEN PlayerID
    ELSE i + 1

ScanState(i, k) ==
    IF i > k THEN "ok" ELSE IF i % 4 = 3 THEN "dead" ELSE "far"

InitScan ==
    /\ InitLoaded
    /\ canDraw = TRUE
    /\ \E n \in 0..MaxHandles : \E k \in 0..n :
         /\ highActorHandles = [i \in 1..n |-> ScanHandle(i, k)]
         /\ actorState = [id \in 2..(n + 1) |-> ScanState(id - 1, k)]
         /\ actorName = [id \in 1..(n + 1) |-> DefaultName(id)]
    /\ \E hide \in BOOLEAN : Settings = SettingsWith(hide, FALSE, 0, FALSE)
    /\ iniFile = Settings
    /\ hostSerial = FALSE
    /\ depsMayFail = TRUE
    /\ frameCap = MaxFrame
    /\ call = NoCall

NextScan ==
    \/ TickRT
    \/ RunTask
    \/ ProducerStart
    \/ ProducerClear
    \/ ProducerScan
    \/ PublishLock
    \/ PublishWrite
    \/ PublishUnlock
    \/ ProducerReturn

SpecScan == InitScan /\ [][NextScan]_vars

\* the pipeline under weak fairness of the game thread: the host runs every
\* queued task, a running Producer takes its next step
GameThread ==
    \/ RunTask
    \/ ProducerStart
    \/ ProducerClear
    \/ ProducerScan
    \/ ProducerOcclusion
    \/ PublishLock
    \/ PublishWrite
    \/ PublishUnlock
    \/ ProducerReturn

SpecFair == Init /\ [][Next]_vars /\ WF_vars(GameThread)

(***************************************************************************)
(* Calls of the pure functions                                             *)
(***************************************************************************)
\* the pipeline at rest while a pure function is called
InitIdle ==
    /\ InitLoaded
    /\ canDraw = TRUE
    /\ InitWorld(<< >>)
    /\ Settings = SettingsWith(FALSE, TRUE, 0, FALSE)
    /\ iniFile = Settings
    /\ hostSerial = TRUE
    /\ depsMayFail = FALSE
    /\ frameCap = 0

idleVarsButTmpl == <<envVars, schedVars, overlayVars, snapVars, cacheVars, drawVars,
                     rtVars, pcG, scanVars, frameCap, hooks>>
idleVars == <<envVars, schedVars, overlayVars, snapVars, cacheVars, drawVars, rtVars,
              pcG, scanVars, frameCap, tmpl, hooks>>

\* distances to the camera (world units) and dot products of the camera's
\* forward vector with the direction to the actor (scaled by 10)
Distances == {0, 1, kCloseDistanceThreshold - 1, kCloseDistanceThreshold,
              kCloseDistanceThreshold + 1, MaxDistance}
Dots == {-10, kBehindCameraDotThreshold - 1, kBehindCameraDotThreshold, 0, 10}

OcclusionArgs ==
    [enabled : BOOLEAN, actorOk : BOOLEAN, playerOk : BOOLEAN, cameraOk : BOOLEAN,
     dist : Distances, dot10 : Dots, losOk : BOOLEAN, los : BOOLEAN]

InitOcclusion ==
    /\ InitIdle
    /\ \E a \in OcclusionArgs : call = [fn |-> "pending", args |-> a]

CallIsActorOccluded ==
    /\ call.fn = "pending"
    /\ LET a == call.args
       IN call' = [fn |-> "IsActorOccluded", args |-> a,
                   result |-> IsActorOccluded(a.enabled, a.actorOk, a.playerOk,
                                              a.cameraOk, a.dist, a.dot10,
                                              a.losOk, a.los)]
    /\ UNCHANGED idleVars

SpecOcclusion == InitOcclusion /\ [][CallIsActorOccluded]_vars

\* screen points, in 1/PosScale pixel
Pt(px, py) == [x |-> px * PosScale, y |-> py * PosScale]
Points == {Pt(0, 0), Pt(30, 40), Pt(1000, 0)}
Dist2(p, q) == (p.x - q.x) * (p.x - q.x) + (p.y - q.y) * (p.y - q.y)

\* lines 1046-1057: the position fields of an entry at its first sight
InitPosition(pos) ==
    [smooth |-> pos,
     posHistory |-> [i \in 0..(kPositionHistorySize - 1) |-> pos],
     historyIndex |-> 0,
     historyFilled |-> TRUE]

RECURSIVE SumX(_, _), SumY(_, _)
SumX(h, n) == IF n = 0 THEN 0 ELSE h[n - 1].x + SumX(h, n - 1)
SumY(h, n) == IF n = 0 THEN 0 ELSE h[n - 1].y + SumY(h, n - 1)

\* ActorCache::AddAndGetSmoothed: the entry after the call and the average
AddAndGetSmoothed(e, pos) ==
    LET hist == [e.posHistory EXCEPT ![e.historyIndex] = pos]
        idx == (e.historyIndex + 1) % kPositionHistorySize
        filled == e.historyFilled \/ idx = 0
        count == IF filled THEN kPositionHistorySize ELSE idx
    IN [entry |-> [e EXCEPT !.posHistory = hist, !.historyIndex = idx,
                            !.historyFilled = filled],
        avg |-> IF count = 0 THEN pos
                ELSE [x |-> SumX(hist, count) \div count,
                      y |-> SumY(hist, count) \div count]]

\* line 1093: dist > 50.0f, on squared distances
IsLargeMovement_Never(d2) == FALSE
IsLargeMovement(d2) ==
    d2 > (kLargeMovementThreshold * PosScale) * (kLargeMovementThreshold * PosScale)

\* lines 1084-1104: the position fields after a smoothing tick
SmoothPosition(e, pos) ==
    LET r == AddAndGetSmoothed(e, pos)
        old == e.smooth
    IN [r.entry EXCEPT !.smooth =
           IF IsLargeMovement(Dist2(pos, old))
           THEN [x |-> old.x + (r.avg.x - old.x) \div 2,
                 y |-> old.y + (r.avg.y - old.y) \div 2]
           ELSE r.avg]

\* an entry is initialized at one point and then smoothed toward up to
\* MaxUpdates raw positions; samples logs the raw positions, oldest first
InitSmooth ==
    /\ InitIdle
    /\ \E p \in Points :
         call = [fn |-> "InitPosition", pos |-> p, before |-> InitPosition(p),
                 after |-> InitPosition(p),
                 samples |-> [i \in 1..kPositionHistorySize |-> p], n |-> 0]

CallSmoothPosition ==
    /\ call.fn \in {"InitPosition", "SmoothPosition"}
    /\ call.n < MaxUpdates
    /\ \E p \in Points :
         call' = [fn |-> "SmoothPosition", pos |-> p, before |-> call.after,
                  after |-> SmoothPosition(call.after, p),
                  samples |-> Append(call.samples, p), n |-> call.n + 1]
    /\ UNCHANGED idleVars

SpecSmooth == InitSmooth /\ [][CallSmoothPosition]_vars

\* Exponential smoothing.  Time is counted in units of half the settle
\* time, so that epsilon^(dt/T) = 0.01^(dt/2) = 10^(-dt) is a rational; a
\* settle time of 0 stands for one below kMinSettleTime (1e-5 s), against
\* which every positive dt is huge.  Values are held in 1/ValScale.
RECURSIVE Pow10(_)
Pow10(k) == IF k = 0 THEN 1 ELSE 10 * Pow10(k - 1)

Max(a, b) == IF a >= b THEN a ELSE b
Min(a, b) == IF a <= b THEN a ELSE b

\* lines 817-822: the blend factor, as the fraction num/den
ExpApproachAlpha_Linear(dt, settleTime) ==
    IF settleTime = 0
    THEN [num |-> IF Max(0, dt) > 0 THEN 1 ELSE 0, den |-> 1]
    ELSE [num |-> Min(Max(0, dt), settleTime), den |-> settleTime]
ExpApproachAlpha(dt, settleTime) ==
    LET dt0 == Max(0, dt)
    IN IF settleTime = 0
       THEN [num |-> IF dt0 > 0 THEN 1 ELSE 0, den |-> 1]
       ELSE [num |-> Pow10(dt0) - 1, den |-> Pow10(dt0)]

\* lines 1080-1082: current += (target - current) * alpha
ExpApproach(current, target, alpha) ==
    current + ((target - current) * alpha.num) \div alpha.den

SettleTimes == {0, SettleUnits}
SmoothValues == {0, ValScale \div 2, ValScale}

InitExp ==
    /\ InitIdle
    /\ \E x0 \in SmoothValues, tg \in SmoothValues, st \in SettleTimes :
         call = [fn |-> "start", settleTime |-> st, initial |-> x0, target |-> tg,
                 value |-> x0, dt |-> 0, elapsed |-> 0, ticks |-> 0]

CallExpApproach ==
    /\ call.fn \in {"start", "ExpApproach"}
    /\ \E dt \in -1..SettleUnits :
         /\ call.elapsed + Max(0, dt) <= MaxElapsed
         /\ call.ticks < MaxElapsed + 1
         /\ call' = [call EXCEPT
               !.fn = "ExpApproach",
               !.value = ExpApproach(call.value, call.target,
                                     ExpApproachAlpha(dt, call.settleTime)),
               !.dt = dt,
               !.elapsed = @ + Max(0, dt),
               !.ticks = @ + 1]
    /\ UNCHANGED idleVars

SpecExp == InitExp /\ [][CallExpApproach]_vars

\* lines 321-336: the smoothing fields of a value-initialized ActorCache
SmoothedDefault ==
    [initialized |-> FALSE, alphaSmooth |-> ValScale, textSizeScale |-> ValScale,
     occlusionSmooth |-> ValScale, smooth |-> Pt(0, 0),
     posHistory |-> [i \in 0..(kPositionHistorySize - 1) |-> Pt(0, 0)],
     historyIndex |-> 0, historyFilled |-> FALSE]

\* lines 1042-1067: the first-sight branch of DrawLabel
FirstSight_SeedOcclusion(e, alphaTarget, textScaleTarget, isOccluded, pos) ==
    [e EXCEPT !.initialized = TRUE, !.alphaSmooth = alphaTarget,
              !.textSizeScale = textScaleTarget, !.smooth = pos,
              !.posHistory = [i \in 0..(kPositionHistorySize - 1) |-> pos],
              !.historyIndex = 0, !.historyFilled = TRUE,
              !.occlusionSmooth = IF isOccluded THEN 0 ELSE ValScale]
FirstSight(e, alphaTarget, textScaleTarget, isOccluded, pos) ==
    [e EXCEPT !.initialized = TRUE, !.alphaSmooth = alphaTarget,
              !.textSizeScale = textScaleTarget, !.smooth = pos,
              !.posHistory = [i \in 0..(kPositionHistorySize - 1) |-> pos],
              !.historyIndex = 0, !.historyFilled = TRUE,
              !.occlusionSmooth = ValScale]

\* lines 948-956 and 1031-1067: the smoothing fields of the entry DrawLabel
\* emplaces for a record, after the call; projected: WorldToScreen succeeded
FirstDrawLabel(a) ==
    IF ~a.projected THEN SmoothedDefault
    ELSE FirstSight(SmoothedDefault, a.alphaTarget, a.textScaleTarget,
                    a.isOccluded, a.pos)

FirstSightArgs ==
    [projected : BOOLEAN, alphaTarget : SmoothValues, textScaleTarget : SmoothValues,
     isOccluded : BOOLEAN, pos : Points]

InitFirstSight ==
    /\ InitIdle
    /\ \E a \in FirstSightArgs : call = [fn |-> "pending", args |-> a]

CallFirstDrawLabel ==
    /\ call.fn = "pending"
    /\ call' = [fn |-> "DrawLabel", args |-> call.args,
                entry |-> FirstDrawLabel(call.args)]
    /\ UNCHANGED idleVars

SpecFirstSight == InitFirstSight /\ [][CallFirstDrawLabel]_vars

\* DrawLabel called for one entity on successive frames, with the reveal
\* animation enabled; prev is the record of the call before
LabelRecords ==
    {ActorDrawData(2, nm, FALSE, occ) : nm \in Names, occ \in BOOLEAN}

InitLabel ==
    /\ InitIdle
    /\ call = [fn |-> "start", cache |-> << >>, frame |-> 0]

CallDrawLabel ==
    /\ call.fn \in {"start", "DrawLabel"}
    /\ call.frame < MaxCalls
    /\ \E d \in LabelRecords, stage \in Stages :
         /\ StageAllowed(call.cache, d, stage, TRUE)
         /\ call' = [fn |-> "DrawLabel", d |-> d, stage |-> stage,
                     known |-> d.formID \in DOMAIN call.cache,
                     before |-> IF d.formID \in DOMAIN call.cache
                                THEN call.cache[d.formID] ELSE ActorCache,
                     prev |-> IF call.fn = "start" THEN d ELSE call.d,
                     cache |-> DrawLabel(call.cache, d, call.frame + 1, stage, TRUE),
                     frame |-> call.frame + 1]
    /\ UNCHANGED idleVars

SpecLabel == InitLabel /\ [][CallDrawLabel]_vars

\* GetReactionToPlayer; self: the actor is the player
GetReactionToPlayer_OneWay(a) ==
    IF ~a.actorOk \/ ~a.playerOk THEN "kNeutral"
    ELSE IF a.self THEN "kFriend"
    ELSE IF a.actorHostile THEN "kEnemy"
    ELSE IF a.teammate THEN "kAlly"
    ELSE IF a.canTalk THEN "kFriend"
    ELSE "kNeutral"
GetReactionToPlayer(a) ==
    IF ~a.actorOk \/ ~a.playerOk THEN "kNeutral"
    ELSE IF a.self THEN "kFriend"
    ELSE IF a.actorHostile \/ a.playerHostile THEN "kEnemy"
    ELSE IF a.teammate THEN "kAlly"
    ELSE IF a.canTalk THEN "kFriend"
    ELSE "kNeutral"

GetDisposition(a) ==
    IF ~a.actorOk \/ ~a.playerOk THEN "Neutral"
    ELSE IF a.actorHostile THEN "Enemy"
    ELSE IF a.teammate THEN "AllyOrFriend"
    ELSE LET r == GetReactionToPlayer(a)
         IN IF r = "kEnemy" THEN "Enemy"
            ELSE IF r \in {"kAlly", "kFriend"} THEN "AllyOrFriend"
            ELSE "Neutral"

DispositionArgs ==
    [actorOk : BOOLEAN, playerOk : BOOLEAN, self : BOOLEAN, actorHostile : BOOLEAN,
     playerHostile : BOOLEAN, teammate : BOOLEAN, canTalk : BOOLEAN]

InitDisposition ==
    /\ InitIdle
    /\ \E a \in DispositionArgs : call = [fn |-> "pending", args |-> a]

CallGetDisposition ==
    /\ call.fn = "pending"
    /\ call' = [fn |-> "GetDisposition", args |-> call.args,
                result |-> GetDisposition(call.args)]
    /\ UNCHANGED idleVars

SpecDisposition == InitDisposition /\ [][CallGetDisposition]_vars

\* AppearanceTemplate::ApplyIfConfigured; envOk: the form id resolves to an
\* NPC and CopyAppearanceToPlayer succeeds
ApplyIfConfigured_Always(t, settings, envOk) ==
    IF ~settings.UseTemplateAppearance THEN [t EXCEPT !.last = "disabled"]
    ELSE IF ~settings.TemplateConfigured THEN [t EXCEPT !.last = "unconfigured"]
    ELSE IF ~envOk THEN [t EXCEPT !.last = "failed"]
    ELSE [t EXCEPT !.applied = TRUE, !.applications = t.applications + 1,
                   !.last = "applied", !.reloaded = FALSE]
ApplyIfConfigured(t, settings, envOk) ==
    IF t.applied THEN [t EXCEPT !.last = "already"]
    ELSE IF ~settings.UseTemplateAppearance THEN [t EXCEPT !.last = "disabled"]
    ELSE IF ~settings.TemplateConfigured THEN [t EXCEPT !.last = "unconfigured"]
    ELSE IF ~envOk THEN [t EXCEPT !.last = "failed"]
    ELSE [t EXCEPT !.applied = TRUE, !.applications = t.applications + 1,
                   !.last = "applied", !.reloaded = FALSE]

\* what ApplyIfConfigured returns
ApplyResult(t) == t.last \in {"already", "applied"}

\* main.cpp, CheckPendingAppearanceTemplate; playerReady: the player, its
\* base and its 3D are loaded
CheckPendingAppearanceTemplate(t, settings, playerReady, envOk) ==
    IF ~t.pending THEN t
    ELSE IF ~playerReady THEN t
    ELSE ApplyIfConfigured([t EXCEPT !.pending = FALSE], settings, envOk)

\* Renderer_CheckAppearanceTemplate, called by the PostDisplay hook
CheckAppearanceTemplate ==
    /\ pcR = "idle"
    /\ \E playerReady \in BOOLEAN, envOk \in BOOLEAN :
         /\ tmpl' = CheckPendingAppearanceTemplate(tmpl, Settings, playerReady, envOk)
         /\ tmpl'.applications <= MaxApplications
    /\ UNCHANGED <<idleVarsButTmpl, call>>

\* main.cpp, MessageHandler: kPostLoadGame and kNewGame
MessageHandler ==
    /\ tmpl' = IF Settings.UseTemplateAppearance THEN [tmpl EXCEPT !.pending = TRUE]
               ELSE tmpl
    /\ UNCHANGED <<idleVarsButTmpl, call>>

\* the task a hot reload queued (lines 1988-1990) runs on the game thread
RunApplyTask ==
    /\ pcG = "idle"
    /\ tmpl.applyTasks > 0
    /\ \E envOk \in BOOLEAN :
         /\ tmpl' = ApplyIfConfigured([tmpl EXCEPT !.applyTasks = tmpl.applyTasks - 1],
                                      Settings, envOk)
         /\ tmpl'.applications <= MaxApplications
    /\ UNCHANGED <<idleVarsButTmpl, call>>

\* the user edits the template keys of the INI file
EditIni ==
    /\ \E use \in BOOLEAN, conf \in BOOLEAN, reapply \in BOOLEAN :
         iniFile' = [iniFile EXCEPT !.UseTemplateAppearance = use,
                                    !.TemplateConfigured = conf,
                                    !.TemplateReapplyOnReload = reapply]
    /\ UNCHANGED <<canDraw, actorState, actorName, highActorHandles, Settings,
                   hostSerial, depsMayFail, schedVars, overlayVars, snapVars, cacheVars,
                   drawVars, rtVars, pcG, scanVars, frameCap, call, tmpl, hooks>>

\* the appearance template over game loads and hot reloads: no NPC, the
\* player hidden, the Producer not run
InitTemplate ==
    /\ InitLoaded
    /\ canDraw = TRUE
    /\ InitWorld(<< >>)
    /\ \E use \in BOOLEAN, conf \in BOOLEAN, reapply \in BOOLEAN :
         Settings = [SettingsWith(TRUE, FALSE, EndKey, FALSE) EXCEPT
                        !.UseTemplateAppearance = use,
                        !.TemplateConfigured = conf,
                        !.TemplateReapplyOnReload = reapply]
    /\ iniFile = Settings
    /\ hostSerial = TRUE
    /\ depsMayFail = FALSE
    /\ frameCap = MaxFrame
    /\ call = NoCall

NextTemplate ==
    \/ MessageHandler
    \/ CheckAppearanceTemplate
    \/ RunApplyTask
    \/ EditIni
    \/ DrawBegin
    \/ DrawCopy

SpecTemplate == InitTemplate /\ [][NextTemplate]_vars

(***************************************************************************)
(* Hooks.cpp and the console command                                       *)
(***************************************************************************)
\* Renderer::ToggleEnabled: the new state, stored and returned
ToggleEnabled(enabled) == ~enabled

\* ConsoleCommands::WhoisExecute
WhoisExecute ==
    /\ s_manualEnabled' = ToggleEnabled(s_manualEnabled)
    /\ hooks' = [hooks EXCEPT !.toggleFound = s_manualEnabled,
                              !.toggleResult = ToggleEnabled(s_manualEnabled)]
    /\ UNCHANGED <<envVars, schedVars, s_allowOverlay, snapVars, cacheVars, drawVars,
                   rtVars, pcG, scanVars, frameCap, call, tmpl>>

\* CreateD3DAndSwapChain::thunk; depsOk: the renderer, its windows, the swap
\* chain, the device and context are there and both backends initialize
CreateD3DAndSwapChain ==
    /\ hooks.pc = "idle"
    /\ \E depsOk \in BOOLEAN :
         hooks' = IF hooks.initialized THEN hooks
                  ELSE IF ~depsOk
                  THEN [hooks EXCEPT !.initialized = TRUE, !.inits = hooks.inits + 1]
                  ELSE [hooks EXCEPT !.initialized = TRUE, !.inits = hooks.inits + 1,
                                     !.imgui = TRUE]
    /\ UNCHANGED <<envVars, schedVars, overlayVars, snapVars, cacheVars, drawVars,
                   rtVars, pcG, scanVars, frameCap, call, tmpl>>

\* the first hook call after a Present belongs to the next frame
StartedFrame(h) == IF h.frame.presented THEN [h EXCEPT !.frame = FreshFrame] ELSE h

\* RenderOverlayNow up to the call of Renderer::Draw.  Without the backends
\* the ImGui frame calls are undefined: the call dies there or goes on
RenderOverlayNow(h, by, survives) ==
    IF ~h.initialized THEN h
    ELSE IF ~h.imgui /\ ~survives THEN [h EXCEPT !.bare = TRUE]
    ELSE [h EXCEPT !.bare = h.bare \/ ~h.imgui,
                   !.pc = "draw", !.by = by,
                   !.frame.byPostDisplay =
                        IF by = "postDisplay" THEN h.frame.byPostDisplay + 1
                        ELSE h.frame.byPostDisplay,
                   !.frame.byPresent =
                        IF by = "present" THEN h.frame.byPresent + 1
                        ELSE h.frame.byPresent]

\* PostDisplay::thunk up to RenderOverlayNow
PostDisplayThunk ==
    /\ hooks.pc = "idle"
    /\ pcR = "idle"
    /\ hostSerial => pcG = "idle"
    /\ ~StartedFrame(hooks).frame.postDisplay
    /\ \E menuVisible \in BOOLEAN, taskOk \in BOOLEAN, playerReady \in BOOLEAN,
          envOk \in BOOLEAN, survives \in BOOLEAN :
         LET h1 == [StartedFrame(hooks) EXCEPT
                       !.shouldRenderOverlay = FALSE,
                       !.overlayRenderedThisFrame = FALSE,
                       !.frame.postDisplay = TRUE,
                       !.frame.enabledAtStart = s_manualEnabled]
         IN IF ~h1.initialized \/ ~canDraw \/ ~menuVisible
            THEN /\ hooks' = h1
                 /\ UNCHANGED <<schedVars, tmpl>>
            ELSE /\ QueueSnapshotUpdate_RenderThread(taskOk)
                 /\ tmpl' = CheckPendingAppearanceTemplate(tmpl, Settings, playerReady,
                                                           envOk)
                 /\ tmpl'.applications <= MaxApplications
                 /\ LET shouldRender == IsOverlayAllowedRT
                        h2 == [h1 EXCEPT !.shouldRenderOverlay = shouldRender,
                                         !.frame.wanted = shouldRender]
                    IN hooks' = IF shouldRender /\ ~h2.overlayRenderedThisFrame
                                THEN RenderOverlayNow(
                                        [h2 EXCEPT !.overlayRenderedThisFrame = TRUE],
                                        "postDisplay", survives)
                                ELSE h2
    /\ UNCHANGED <<envVars, overlayVars, snapVars, cacheVars, drawVars, rtVars, pcG,
                   scanVars, frameCap, call>>

\* the game calls Present: PresentHook once the initialization has patched
\* the swap chain, the original Present before
PresentHook ==
    /\ hooks.pc = "idle"
    /\ pcR = "idle"
    /\ \E survives \in BOOLEAN :
         LET h0 == StartedFrame(hooks)
             h1 == IF h0.frame.postDisplay THEN h0
                   ELSE [h0 EXCEPT !.frame.wanted =
                                      h0.initialized /\ canDraw /\ IsOverlayAllowedRT]
         IN hooks' = IF h1.imgui /\ h1.shouldRenderOverlay
                          /\ ~h1.overlayRenderedThisFrame
                     THEN RenderOverlayNow(h1, "present", survives)
                     ELSE [h1 EXCEPT !.frame.presented = TRUE]
    /\ UNCHANGED <<envVars, schedVars, overlayVars, snapVars, cacheVars, drawVars,
                   rtVars, pcG, scanVars, frameCap, call, tmpl>>

\* RenderOverlayNow: Renderer::Draw()
RenderOverlayDraw ==
    /\ hooks.pc = "draw"
    /\ DrawBody
    /\ hooks' = [hooks EXCEPT !.pc = "drawing"]

\* RenderOverlayNow after Draw has returned, and the Present hook's
\* forwarding to the original Present
RenderOverlayEnd ==
    /\ hooks.pc = "drawing"
    /\ pcR = "idle"
    /\ hooks' = [hooks EXCEPT !.pc = "idle", !.by = "none",
                              !.overlayRenderedThisFrame = TRUE,
                              !.frame.presented =
                                   hooks.frame.presented \/ hooks.by = "present"]
    /\ UNCHANGED <<envVars, schedVars, overlayVars, snapVars, cacheVars, drawVars,
                   rtVars, pcG, scanVars, frameCap, call, tmpl>>

\* between two presented frames the game changes what CanDrawOverlay() gives
\* (a menu opens or closes, a load begins or ends)
GameStateChange ==
    /\ hooks.pc = "idle"
    /\ pcR = "idle"
    /\ hooks.frame.presented
    /\ canDraw' = ~canDraw
    /\ UNCHANGED <<actorState, actorName, highActorHandles, Settings, iniFile,
                   hostSerial, depsMayFail, schedVars, overlayVars, snapVars, cacheVars,
                   drawVars, rtVars, pcG, scanVars, frameCap, call, tmpl, hooks>>

\* the plugin from its construction: the hooks, the console command, the
\* Producer and Draw, with the player alone in the world
InitHooks ==
    /\ InitProgram
    /\ canDraw = FALSE
    /\ InitWorld(<< >>)
    /\ Settings = SettingsWith(FALSE, FALSE, 0, FALSE)
    /\ iniFile = Settings
    /\ hostSerial = TRUE
    /\ depsMayFail = FALSE
    /\ frameCap = MaxFrame
    /\ call = NoCall

NextHooks ==
    \/ CreateD3DAndSwapChain
    \/ PostDisplayThunk
    \/ PresentHook
    \/ RenderOverlayDraw
    \/ RenderOverlayEnd
    \/ DrawCopy
    \/ DrawLabelStep
    \/ DrawPrune
    \/ WhoisExecute
    \/ RunTask
    \/ ProducerStart
    \/ ProducerClear
    \/ ProducerScan
    \/ PublishLock
    \/ PublishWrite
    \/ PublishUnlock
    \/ ProducerReturn
    \/ GameStateChange

SpecHooks == InitHooks /\ [][NextHooks]_vars

(***************************************************************************)
(* Settings.cpp: the parsing helpers.  A string is a sequence of symbols;  *)
(* an effect name or another word is one symbol.                           *)
(***************************************************************************)
Whitespace == {" ", "\t", "\r", "\n"}

\* the names ParseEffectType compares with
EffectNames ==
    {"None", "Gradient", "VerticalGradient", "DiagonalGradient", "RadialGradient",
     "Shimmer", "ChromaticShimmer", "PulseGradient", "RainbowWave", "ConicRainbow",
     "Aurora", "Sparkle", "Plasma", "Scanline"}

\* Trim: find_first_not_of / find_last_not_of " \t\r\n"; a string without
\* any other character is returned as it is
Trim(str) ==
    LET keep == {i \in 1..Len(str) : str[i] \notin Whitespace}
    IN IF keep = {} THEN str
       ELSE LET first == CHOOSE i \in keep : \A j \in keep : i <= j
                last == CHOOSE i \in keep : \A j \in keep : j <= i
            IN SubSeq(str, first, last)

ParseEffectType_NoTrim(str) ==
    IF Len(str) = 1 /\ str[1] \in EffectNames THEN str[1] ELSE "Gradient"
ParseEffectType(str) ==
    LET s == Trim(str)
    IN IF Len(s) = 1 /\ s[1] \in EffectNames THEN s[1] ELSE "Gradient"

\* the values of an effect key: up to MaxWords symbols, each a whitespace
\* character, an effect name of the plugin or of its tests, or another word
EffectWords == Whitespace \cup EffectNames \cup {"Fire", "Unknown"}
EffectStrings == UNION {[1..n -> EffectWords] : n \in 0..MaxWords}

InitEffect ==
    /\ InitIdle
    /\ \E str \in EffectStrings : call = [fn |-> "pending", str |-> str]

CallParseEffectType ==
    /\ call.fn = "pending"
    /\ call' = [fn |-> "ParseEffectType", str |-> call.str,
                result |-> ParseEffectType(call.str)]
    /\ UNCHANGED idleVars

SpecEffect == InitEffect /\ [][CallParseEffectType]_vars

(***************************************************************************)
(* Settings.cpp: Load, one line of whois.ini at a time.  A line is a       *)
(* section header, a key/value pair or a line Load skips; a value is one   *)
(* of the spellings in IniValues.                                          *)
(***************************************************************************)

\* std::stoi: the value of the longest numeric prefix; std::invalid_argument
\* without one, std::out_of_range beyond int
StoI(str) ==
    CASE str = "0" -> [ok |-> TRUE, value |-> 0]
      [] str = "7" -> [ok |-> TRUE, value |-> 7]
      [] str = "12abc" -> [ok |-> TRUE, value |-> 12]
      [] str = "99999999999" -> [ok |-> FALSE, value |-> 0]
      [] OTHER -> [ok |-> FALSE, value |-> 0]

\* ParseInt: std::stoi inside try / catch (...)
ParseInt(str, defaultVal) ==
    IF StoI(str).ok THEN StoI(str).value ELSE defaultVal

IniValues == {"7", "12abc", "abc", "", "99999999999"}
IniKeys == {"OcclusionCheckInterval", "MinLevel", "ParticleCount", "Priority"}
IniLines ==
    [kind : {"section"}, name : {"Tier", "SpecialTitle"}, num : {"0", "abc"}]
    \cup {[kind |-> "section", name |-> "Display", num |-> ""]}
    \cup [kind : {"pair"}, key : IniKeys, val : IniValues]
    \cup {[kind |-> "comment"]}
IniFiles == UNION {[1..n -> IniLines] : n \in 0..MaxLines}

\* lines 231-247 and 259-268: the vectors grow up to the section's index
NewTier == [minLevel |-> 1, particleCount |-> 0]
NewSpecialTitle == [priority |-> 0]
GrowTo(vec, index, new) ==
    [i \in 1..(IF Len(vec) > index THEN Len(vec) ELSE index + 1)
        |-> IF i <= Len(vec) THEN vec[i] ELSE new]

\* the settings Load starts from at plugin initialization
LoadDefaults ==
    [OcclusionCheckInterval |-> DefaultOcclusionCheckInterval,
     Tiers |-> << >>, SpecialTitles |-> << >>]

NoParse == [key |-> "", failed |-> FALSE, stored |-> 0, default |-> 0]

InitLoad ==
    /\ InitIdle
    /\ \E file \in IniFiles, opened \in BOOLEAN :
           call = [fn |-> "pending", file |-> file, opened |-> opened]

\* lines 201-208
LoadOpen ==
    /\ call.fn = "pending"
    /\ call' = [fn |-> "Load", file |-> call.file,
                pc |-> IF call.opened THEN "loop" ELSE "returned",
                idx |-> 1, currentTier |-> -1, currentSpecialTitle |-> -1,
                settings |-> LoadDefaults, last |-> NoParse]
    /\ UNCHANGED idleVars

\* lines 219-276: a section header
LoadSection(c, line) ==
    IF line.name = "Tier"
    THEN LET n == ParseInt(line.num, -1)
         IN IF n < 0
            THEN [c EXCEPT !.currentTier = -1, !.currentSpecialTitle = -1]
            ELSE [c EXCEPT !.currentTier = n, !.currentSpecialTitle = -1,
                           !.settings.Tiers = GrowTo(@, n, NewTier)]
    ELSE IF line.name = "SpecialTitle"
    THEN LET n == ParseInt(line.num, -1)
         IN IF n >= 0
            THEN [c EXCEPT !.currentSpecialTitle = n, !.currentTier = -1,
                           !.settings.SpecialTitles = GrowTo(@, n, NewSpecialTitle)]
            ELSE [c EXCEPT !.currentSpecialTitle = n, !.currentTier = -1]
    ELSE [c EXCEPT !.currentTier = -1, !.currentSpecialTitle = -1]

\* lines 279-507 for the keys of IniKeys: the tier keys first, then the
\* special-title keys, then the global ones
LoadPair(c, line) ==
    LET key == line.key
        val == line.val
        inTier == c.currentTier >= 0 /\ c.currentTier < Len(c.settings.Tiers)
        inSpecial == /\ c.currentSpecialTitle >= 0
                     /\ c.currentSpecialTitle < Len(c.settings.SpecialTitles)
        parsed(v, d) == [key |-> key, failed |-> ~StoI(val).ok,
                         stored |-> v, default |-> d]
    IN IF inTier /\ key = "MinLevel"
       THEN LET v == ParseInt(val, 1) % 65536
            IN [c EXCEPT !.settings.Tiers[c.currentTier + 1].minLevel = v,
                         !.last = parsed(v, 1)]
       ELSE IF inTier /\ key = "ParticleCount"
       THEN IF StoI(val).ok
            THEN [c EXCEPT !.settings.Tiers[c.currentTier + 1].particleCount =
                               StoI(val).value,
                           !.last = parsed(StoI(val).value, 0)]
            ELSE [c EXCEPT !.pc = "thrown",
                           !.last = parsed(c.settings.Tiers[c.currentTier + 1].particleCount, 0)]
       ELSE IF inSpecial /\ key = "Priority"
       THEN LET v == ParseInt(val, 0)
            IN [c EXCEPT !.settings.SpecialTitles[c.currentSpecialTitle + 1].priority = v,
                         !.last = parsed(v, 0)]
       ELSE IF key = "OcclusionCheckInterval"
       THEN LET v == ParseInt(val, DefaultOcclusionCheckInterval)
            IN [c EXCEPT !.settings.OcclusionCheckInterval = v,
                         !.last = parsed(v, DefaultOcclusionCheckInterval)]
       ELSE [c EXCEPT !.last = NoParse]

\* one iteration of the while (std::getline) loop
LoadLine ==
    /\ call.fn = "Load" /\ call.pc = "loop"
    /\ call.idx <= Len(call.file)
    /\ LET line == call.file[call.idx]
           c == [call EXCEPT !.last = NoParse]
           c1 == IF line.kind = "section" THEN LoadSection(c, line)
                 ELSE IF line.kind = "pair" THEN LoadPair(c, line)
                 ELSE c
       IN call' = IF c1.pc = "thrown" THEN c1 ELSE [c1 EXCEPT !.idx = @ + 1]
    /\ UNCHANGED idleVars

\* getline fails at the end of the file
LoadReturn ==
    /\ call.fn = "Load" /\ call.pc = "loop"
    /\ call.idx > Len(call.file)
    /\ call' = [call EXCEPT !.pc = "returned", !.last = NoParse]
    /\ UNCHANGED idleVars

NextLoad == LoadOpen \/ LoadLine \/ LoadReturn
SpecLoad == InitLoad /\ [][NextLoad]_vars

(***************************************************************************)
(* Settings.cpp: the Format key.  A value is a sequence of characters;     *)
(* the harness writes the value from the quoted texts it is meant to       *)
(* carry, and Load scans it back.                                          *)
(***************************************************************************)
Quote == "\""
Backslash == "\\"
FormatChars == {Quote, Backslash, "%", "t", "l"}

\* std::string::find of a two-character string
Contains(text, a, b) ==
    \E k \in 1..(Len(text) - 1) : text[k] = a /\ text[k + 1] = b

\* line 472: bool isLevel = current.find("%l") != npos
IsLevel_Never(current) == FALSE
IsLevel(current) == Contains(current, "%", "l")

\* lines 463-476: the closing quote
CloseQuote(st) ==
    IF Contains(st.current, "%", "t")
    THEN [st EXCEPT !.newTitleFormat = st.current, !.titleFound = TRUE,
                    !.current = << >>, !.inQuote = FALSE]
    ELSE [st EXCEPT !.newDisplayFormat =
                        Append(@, [format |-> st.current,
                                   useLevelFont |-> IsLevel(st.current)]),
                    !.current = << >>, !.inQuote = FALSE]

\* lines 449-486: the for loop from index i (1-based) on
RECURSIVE ScanFormat(_, _, _)
ScanFormat(val, i, st) ==
    IF i > Len(val) THEN st
    ELSE LET c == val[i]
         IN IF c = Backslash /\ i + 1 <= Len(val)
            THEN IF st.inQuote
                 THEN ScanFormat(val, i + 2,
                                 [st EXCEPT !.current = Append(@, val[i + 1])])
                 ELSE ScanFormat(val, i + 1, st)
            ELSE IF c = Quote
            THEN IF st.inQuote
                 THEN ScanFormat(val, i + 1, CloseQuote(st))
                 ELSE ScanFormat(val, i + 1, [st EXCEPT !.inQuote = TRUE])
            ELSE IF st.inQuote
            THEN ScanFormat(val, i + 1, [st EXCEPT !.current = Append(@, c)])
            ELSE ScanFormat(val, i + 1, st)

\* lines 440-496: the Format branch of Load on the settings so far
ParseFormat(val, settings) ==
    LET st == ScanFormat(val, 1,
                         [inQuote |-> FALSE, current |-> << >>,
                          newDisplayFormat |-> << >>,
                          newTitleFormat |-> << >>, titleFound |-> FALSE])
    IN [newDisplayFormat |-> st.newDisplayFormat,
        titleFound |-> st.titleFound,
        TitleFormat |-> IF st.titleFound THEN st.newTitleFormat
                        ELSE settings.TitleFormat,
        DisplayFormat |-> IF st.newDisplayFormat # << >> THEN st.newDisplayFormat
                          ELSE settings.DisplayFormat]

\* writing a value: every text between double quotes, its quotes and
\* backslashes escaped with a backslash, with the characters of junk before
\* each opening quote and after the last closing one
RECURSIVE Escape(_)
Escape(text) ==
    IF text = << >> THEN << >>
    ELSE (IF Head(text) \in {Quote, Backslash}
          THEN <<Backslash, Head(text)>> ELSE <<Head(text)>>)
         \o Escape(Tail(text))

RECURSIVE WriteFormat(_, _)
WriteFormat(texts, junk) ==
    IF texts = << >> THEN junk
    ELSE junk \o <<Quote>> \o Escape(Head(texts)) \o <<Quote>>
         \o WriteFormat(Tail(texts), junk)

\* the texts: at most MaxSegments of them, MaxText characters in all
RECURSIVE SumTo(_, _)
SumTo(lens, n) == IF n = 0 THEN 0 ELSE lens[n] + SumTo(lens, n - 1)
TextLengths ==
    UNION {{lens \in [1..n -> 0..MaxText] : SumTo(lens, n) <= MaxText} :
              n \in 0..MaxSegments}
SplitText(flat, lens) ==
    [k \in DOMAIN lens |->
        SubSeq(flat, SumTo(lens, k - 1) + 1, SumTo(lens, k))]
FormatTexts ==
    UNION {{SplitText(flat, lens) :
               flat \in [1..SumTo(lens, Len(lens)) -> FormatChars]} :
              lens \in TextLengths}
FormatJunk == {<< >>, <<"t">>, <<Backslash>>, <<"%", "l">>}

\* the format before the key is read: the built-in one or one configured by
\* an earlier Format line
FormatsBefore ==
    {[TitleFormat |-> << >>, DisplayFormat |-> << >>],
     [TitleFormat |-> <<"%", "t">>,
      DisplayFormat |-> <<[format |-> <<"%", "l">>, useLevelFont |-> TRUE]>>]}

InitFormat ==
    /\ InitIdle
    /\ \E texts \in FormatTexts, junk \in FormatJunk, before \in FormatsBefore :
           call = [fn |-> "pending", texts |-> texts, before |-> before,
                   val |-> WriteFormat(texts, junk)]

CallParseFormat ==
    /\ call.fn = "pending"
    /\ call' = [fn |-> "ParseFormat", texts |-> call.texts,
                before |-> call.before, val |-> call.val,
                result |-> ParseFormat(call.val, call.before)]
    /\ UNCHANGED idleVars

SpecFormat == InitFormat /\ [][CallParseFormat]_vars

(***************************************************************************)
(* Properties                                                              *)
(***************************************************************************)

\* C1: at most one Producer invocation is queued or running at any time,
\* and while the single-flight flag is set (a scheduled update has not
\* completed) no step schedules a further invocation.
C1_SingleFlight ==
    /\ [](InFlight <= 1)
    /\ [][s_updateQueued => taskQueue' <= taskQueue]_vars

\* C1 witness: RequestUpdate was called a second time while the invocation
\* scheduled by the first is still in flight.
C1_Witness == reqDropped /\ InFlight = 1 /\ s_updateQueued

\* C2: every copy Draw takes of the shared snapshot is the complete
\* sequence of the latest publication (the initial empty snapshot, a clear,
\* or the full buffer one Producer invocation assigned), never a partially
\* written one.
C2_SnapshotAtomicity ==
    [][(pcR = "copy" /\ pcR' # "copy") => localSnap' = lastPublished]_vars

\* C2 witness: Draw works on a complete two-record copy while the Producer
\* is in the middle of overwriting the shared snapshot.
C2_Witness ==
    /\ pcR = "labels"
    /\ Len(localSnap) = 2
    /\ localSnap = lastPublished
    /\ pcG = "publishing"
    /\ pubIdx >= 1

\* C3: no buffer the Producer builds and no snapshot it publishes holds
\* more than kMaxActors (16) records, and one invocation examines at most
\* kMaxScan (32) handles of the process list.
C3_BoundedSnapshot ==
    /\ Len(tempBuf) <= kMaxActors
    /\ Len(s_snapshot) <= kMaxActors
    /\ Len(lastPublished) <= kMaxActors
    /\ hIdx - 1 <= kMaxScan

\* C3 witness: on a list longer than the scan ceiling the loop has stopped
\* with 32 handles examined and 16 records collected.
C3_Witness ==
    /\ pcG = "publish"
    /\ Len(highActorHandles) > kMaxScan
    /\ hIdx - 1 = kMaxScan
    /\ Len(tempBuf) = kMaxActors

\* C4: the single-flight flag is set exactly while an invocation is queued
\* or running; it is cleared only by the Producer's return, after its
\* snapshot write is done and the lock released; a request that sets the
\* flag schedules a task; and, the host running its tasks, a set flag is
\* always cleared again.
C4_FlagCleared ==
    /\ [](s_updateQueued <=> InFlight >= 1)
    /\ [][(s_updateQueued /\ ~s_updateQueued') =>
            /\ pcG = "ret"
            /\ pcG' = "idle"
            /\ s_snapshotLock = "none"
            /\ s_snapshot = lastPublished]_vars
    /\ [][(~s_updateQueued /\ s_updateQueued') => taskQueue' = taskQueue + 1]_vars
    /\ (s_updateQueued ~> ~s_updateQueued)

\* C4 witness: an invocation that took the early exit (overlay not allowed)
\* has returned and the flag is clear.
C4_Witness ==
    /\ ~s_allowOverlay
    /\ ~s_updateQueued
    /\ InFlight = 0

\* C5: an eviction sweep removes every entry that is not in the consumed
\* snapshot and was last seen 61 or more frames ago, and leaves an entry
\* last seen 59 or fewer frames ago in place with its fields untouched
\* (last-seen frame apart).
C5_Eviction ==
    [][(pcR = "labels" /\ pcR' = "idle") =>
         \A id \in DOMAIN s_cache :
            LET gap == Sub32(s_frame, s_cache[id].lastSeenFrame)
            IN /\ (id \notin SnapIDs(localSnap) /\ gap >= kCacheGraceFrames + 1)
                     => id \notin DOMAIN s_cache'
               /\ (0 <= gap /\ gap <= kCacheGraceFrames - 1)
                     => /\ id \in DOMAIN s_cache'
                        /\ [s_cache'[id] EXCEPT !.lastSeenFrame = 0] =
                           [s_cache[id] EXCEPT !.lastSeenFrame = 0]]_vars

\* C5 witness: a sweep has just erased the entry of an entity that left the
\* snapshot, while the entry of an entity still in the snapshot is kept.
C5_Witness ==
    /\ pcR = "idle"
    /\ evicted # {}
    /\ evicted \cap DOMAIN s_cache = {}
    /\ PlayerID \in DOMAIN s_cache
    /\ s_frame > kCacheGraceFrames

\* C6: at the end of every Draw call that advanced the frame counter, no
\* cache entry was last seen more than kCacheGraceFrames (60) frames ago.
C6_SweepEveryTick ==
    [][(pcR \in {"copy", "labels"} /\ pcR' = "idle") =>
         \A id \in DOMAIN s_cache' :
            Sub32(s_frame', s_cache'[id].lastSeenFrame) <= kCacheGraceFrames]_vars

\* C7: when DrawLabel runs for an entity whose entry has a complete reveal
\* and was last seen 32 frames ago (absent for 31 frames), the entry's
\* reveal is reset: not complete, elapsed time at most this tick's.
C7_RevealResetOnReentry ==
    [][\A id \in DOMAIN s_cache :
         (/\ pcR = "labels"
          /\ labelIdx <= Len(localSnap)
          /\ labelIdx' = labelIdx + 1
          /\ localSnap[labelIdx].formID = id
          /\ s_cache[id].initialized
          /\ s_cache[id].typewriterComplete
          /\ Sub32(s_frame, s_cache[id].lastSeenFrame) = kReentryThreshold + 2)
         => /\ ~s_cache'[id].typewriterComplete
            /\ s_cache'[id].typewriterTime <= 1]_vars

\* C8: with occlusion enabled, a record whose entity has an initialized
\* cache entry checked fewer than OcclusionCheckInterval frames ago carries
\* the cached result and the Occlusion Subsystem is not invoked; otherwise
\* the subsystem is invoked, and when the check is done the entity's cache
\* entry, if one exists, holds the record's result and the current frame.
C8_OcclusionThrottle ==
    [][/\ (/\ pcG = "scan"
           /\ hIdx <= Len(highActorHandles)
           /\ hIdx' = hIdx + 1
           /\ ~SkipActor(highActorHandles[hIdx])
           /\ Settings.EnableOcclusionCulling)
          => LET h == highActorHandles[hIdx]
                 fresh == /\ h \in DOMAIN s_cache
                          /\ s_cache[h].initialized
                          /\ Sub32(s_frame, s_cache[h].lastOcclusionCheckFrame) >= 0
                          /\ Sub32(s_frame, s_cache[h].lastOcclusionCheckFrame)
                                < Settings.OcclusionCheckInterval
             IN IF fresh
                THEN /\ pcG' = "scan"
                     /\ Len(tempBuf') = Len(tempBuf) + 1
                     /\ tempBuf'[Len(tempBuf')].formID = h
                     /\ tempBuf'[Len(tempBuf')].isOccluded = s_cache[h].cachedOccluded
                ELSE pcG' = "occl" /\ cur'.formID = h
       /\ (pcG = "occl" /\ pcG' = "scan")
          => LET id == cur.formID
                 rec == tempBuf'[Len(tempBuf')]
             IN /\ rec.formID = id
                /\ id \in DOMAIN s_cache
                     => /\ id \in DOMAIN s_cache'
                        /\ s_cache'[id].cachedOccluded = rec.isOccluded
                        /\ s_cache'[id].lastOcclusionCheckFrame = s_frame]_vars

\* C9 as stated: cache entries are created only by a DrawLabel for their
\* identity, and no step of the game thread changes the cache.
C9_CacheOnlyPresentation ==
    [][/\ \A id \in DOMAIN s_cache' \ DOMAIN s_cache :
            /\ pcR = "labels"
            /\ labelIdx <= Len(localSnap)
            /\ labelIdx' = labelIdx + 1
            /\ localSnap[labelIdx].formID = id
       /\ (<<pcG, hIdx, pubIdx>>' # <<pcG, hIdx, pubIdx>>) => s_cache' = s_cache]_vars

\* C9 amended: cache entries are created only by a DrawLabel for their
\* identity; a step of the game thread neither inserts nor removes an
\* entry and changes no field other than lastOcclusionCheckFrame and
\* cachedOccluded, and those only in the step that ends an occlusion check.
C9_ProducerWritesThrottleFields ==
    [][/\ \A id \in DOMAIN s_cache' \ DOMAIN s_cache :
            /\ pcR = "labels"
            /\ labelIdx <= Len(localSnap)
            /\ labelIdx' = labelIdx + 1
            /\ localSnap[labelIdx].formID = id
       /\ (<<pcG, hIdx, pubIdx>>' # <<pcG, hIdx, pubIdx>>)
          => /\ DOMAIN s_cache' = DOMAIN s_cache
             /\ \A id \in DOMAIN s_cache :
                   [s_cache'[id] EXCEPT !.lastOcclusionCheckFrame = 0,
                                        !.cachedOccluded = FALSE] =
                   [s_cache[id] EXCEPT !.lastOcclusionCheckFrame = 0,
                                       !.cachedOccluded = FALSE]
             /\ s_cache' # s_cache => (pcG = "occl" /\ pcG' = "scan")]_vars

\* C9 witness: a Producer invocation has stored an occlusion result in the
\* entry DrawLabel created for an entity.
C9_Witness ==
    \E id \in DOMAIN s_cache :
       /\ s_cache[id].lastOcclusionCheckFrame >= 1
       /\ s_cache[id].cachedOccluded

\* C10: the game thread never finishes an occlusion check holding an
\* iterator to a cache entry that the render thread erased since the
\* lookup, and never holds such an iterator at all.
C10_NoStaleCacheAccess ==
    /\ [](pcG = "occl" /\ cacheIt.found => cacheIt.valid)
    /\ [][~(pcG = "occl" /\ pcG' = "scan" /\ cacheIt.found /\ ~cacheIt.valid)]_vars

\* C11: a Producer invocation that finds the overlay not allowed takes the
\* early exit; the early exit (overlay not allowed, player or process lists
\* missing) replaces the shared snapshot by the empty one and returns; a
\* Draw whose copy of the snapshot is empty ends there, leaving the cache
\* as it was.
C11_EmptyOnUnavailable ==
    [][/\ (pcG = "start" /\ pcG' # "start" /\ ~canDraw) => pcG' = "clear"
       /\ (pcG = "clear" /\ pcG' # "clear")
            => /\ s_snapshot' = <<>>
               /\ lastPublished' = <<>>
               /\ pcG' = "ret"
       /\ (pcR = "copy" /\ pcR' # "copy" /\ localSnap' = <<>>)
            => /\ pcR' = "idle"
               /\ s_cache' = s_cache]_vars

\* C11 witness: after an invocation had built and published records, a
\* later one cleared the snapshot, and Draw then read the empty snapshot
\* and ended with an empty cache.
C11_Witness ==
    /\ pcG = "idle"
    /\ tempBuf # <<>>
    /\ lastPublished = <<>>
    /\ s_snapshot = <<>>
    /\ pcR = "idle"
    /\ s_frame = 1
    /\ localSnap = <<>>
    /\ s_cache = <<>>

\* C12: a call of IsActorOccluded made while the camera data is
\* unavailable returns false, whatever the other arguments.
C12_FailOpen ==
    (call.fn = "IsActorOccluded" /\ ~call.args.cameraOk) => ~call.result

\* C12 witness: without camera data, a call for an actor behind the camera
\* and out of the player's sight, with culling enabled, returned false.
C12_Witness ==
    /\ call.fn = "IsActorOccluded"
    /\ ~call.args.cameraOk
    /\ call.args.enabled /\ call.args.actorOk /\ call.args.playerOk
    /\ call.args.dist > kCloseDistanceThreshold
    /\ call.args.dot10 < kBehindCameraDotThreshold
    /\ call.args.losOk /\ ~call.args.los
    /\ ~call.result

\* C13: a call of IsActorOccluded for a position less than
\* kCloseDistanceThreshold (100 units) from the camera returns false, for
\* every forward direction and every line-of-sight answer.
C13_CloseRange ==
    (call.fn = "IsActorOccluded" /\ call.args.dist < kCloseDistanceThreshold)
       => ~call.result

\* C13 witness: with camera data, a call for an actor 99 units away, behind
\* the camera and out of the player's sight returned false.
C13_Witness ==
    /\ call.fn = "IsActorOccluded"
    /\ call.args.enabled /\ call.args.actorOk /\ call.args.playerOk
    /\ call.args.cameraOk
    /\ call.args.dist = kCloseDistanceThreshold - 1
    /\ call.args.dot10 < kBehindCameraDotThreshold
    /\ call.args.losOk /\ ~call.args.los
    /\ ~call.result

\* the mean of the last kPositionHistorySize raw positions of a sample log
MeanOfLast(samples) ==
    LET n == Len(samples)
        last == [i \in 0..(kPositionHistorySize - 1) |->
                    samples[n - kPositionHistorySize + 1 + i]]
    IN [x |-> SumX(last, kPositionHistorySize) \div kPositionHistorySize,
        y |-> SumY(last, kPositionHistorySize) \div kPositionHistorySize]

C16_SeededFromRecord ==
    (call.fn = "DrawLabel" /\ call.args.projected) =>
       /\ call.entry.alphaSmooth = call.args.alphaTarget
       /\ call.entry.textSizeScale = call.args.textScaleTarget
       /\ call.entry.occlusionSmooth = (IF call.args.isOccluded THEN 0 ELSE ValScale)
       /\ call.entry.smooth = call.args.pos
       /\ \A i \in 0..(kPositionHistorySize - 1) :
             call.entry.posHistory[i] = call.args.pos

\* C16 amended: after the first DrawLabel for a record that projects to the
\* screen, smoothed alpha and scale equal the record's targets, the
\* smoothed position and all 8 history slots the raw screen position, and
\* the smoothed occlusion is 1.0 whether or not the record is occluded;
\* when the projection fails the entry is left uninitialized.
C16_SeededVisible ==
    call.fn = "DrawLabel" =>
       IF call.args.projected
       THEN /\ call.entry.initialized
            /\ call.entry.alphaSmooth = call.args.alphaTarget
            /\ call.entry.textSizeScale = call.args.textScaleTarget
            /\ call.entry.occlusionSmooth = ValScale
            /\ call.entry.smooth = call.args.pos
            /\ \A i \in 0..(kPositionHistorySize - 1) :
                  call.entry.posHistory[i] = call.args.pos
       ELSE ~call.entry.initialized

\* C16 witness: the entry created for an occluded record with targets below
\* 1.0 took the targets for alpha and scale and 1.0 for occlusion.
C16_Witness ==
    /\ call.fn = "DrawLabel"
    /\ call.args.projected
    /\ call.args.isOccluded
    /\ call.args.alphaTarget = ValScale \div 2
    /\ call.args.textScaleTarget = 0
    /\ call.args.pos = Pt(30, 40)
    /\ call.entry.alphaSmooth = ValScale \div 2
    /\ call.entry.occlusionSmooth = ValScale

\* C17: a DrawLabel for a known entity (1) resets the reveal when it was
\* complete, the record of the previous call was occluded and the record
\* is not occluded now; (2) resets the reveal and stores the name when the
\* name differs from the cached name; (3) keeps a complete reveal complete
\* when the name is unchanged and there is no occluded-to-visible
\* transition (the calls being on successive frames).
C17_RevealResets ==
    (call.fn = "DrawLabel" /\ call.known) =>
       LET a == call.cache[call.d.formID]
       IN /\ (call.before.typewriterComplete /\ call.prev.isOccluded
                /\ ~call.d.isOccluded)
             => (~a.typewriterComplete /\ a.typewriterTime <= 1)
          /\ call.d.name # call.before.cachedName
             => /\ ~a.typewriterComplete
                /\ a.typewriterTime <= 1
                /\ a.cachedName = call.d.name
          /\ (/\ call.before.typewriterComplete
              /\ call.d.name = call.before.cachedName
              /\ ~(call.prev.isOccluded /\ ~call.d.isOccluded))
             => a.typewriterComplete

\* C18 as stated: for an actor other than the player, the disposition is
\* Enemy if the actor is hostile to the player, otherwise AllyOrFriend if
\* it is a teammate, otherwise AllyOrFriend if it can talk to the player,
\* otherwise Neutral.
C18_DispositionPrecedence ==
    (call.fn = "GetDisposition" /\ call.args.actorOk /\ call.args.playerOk
       /\ ~call.args.self)
    => call.result = (IF call.args.actorHostile THEN "Enemy"
                      ELSE IF call.args.teammate THEN "AllyOrFriend"
                      ELSE IF call.args.canTalk THEN "AllyOrFriend"
                      ELSE "Neutral")

\* C18 amended: Enemy if the actor is hostile to the player, otherwise
\* AllyOrFriend if it is a teammate, otherwise Enemy if the player is
\* hostile to the actor, otherwise AllyOrFriend if it can talk to the
\* player, otherwise Neutral.
C18_DispositionWithPlayerHostility ==
    (call.fn = "GetDisposition" /\ call.args.actorOk /\ call.args.playerOk
       /\ ~call.args.self)
    => call.result = (IF call.args.actorHostile THEN "Enemy"
                      ELSE IF call.args.teammate THEN "AllyOrFriend"
                      ELSE IF call.args.playerHostile THEN "Enemy"
                      ELSE IF call.args.canTalk THEN "AllyOrFriend"
                      ELSE "Neutral")

\* C18 witness: an actor that is not hostile and not a teammate and can talk
\* to the player, the player being hostile to it, is classified Enemy.
C18_Witness ==
    /\ call.fn = "GetDisposition"
    /\ call.args.actorOk /\ call.args.playerOk /\ ~call.args.self
    /\ ~call.args.actorHostile
    /\ ~call.args.teammate
    /\ call.args.playerHostile
    /\ call.args.canTalk
    /\ call.result = "Enemy"

\* C19: in the buffer the Producer builds, in the shared snapshot and in
\* every published snapshot, only the first record can carry the isPlayer
\* flag or the player's form id; a published snapshot starts with the
\* player's record exactly when HidePlayer is off and the snapshot is not
\* the empty one; with HidePlayer on no record is the player's.
C19_PlayerRecordFirst ==
    /\ \A buf \in {tempBuf, s_snapshot, lastPublished} :
         \A i \in 2..Len(buf) :
            ~buf[i].isPlayer /\ buf[i].formID # PlayerID
    /\ \A buf \in {tempBuf, lastPublished} :
         buf # <<>> =>
            /\ buf[1].isPlayer <=> ~Settings.HidePlayer
            /\ buf[1].isPlayer <=> buf[1].formID = PlayerID

\* C19 witness: the process list holds the player's own handle, the scan
\* has passed it, and the published snapshot has the player's record first
\* and an NPC's after it.
C19_Witness ==
    /\ pcG = "ret"
    /\ \E i \in 1..Len(highActorHandles) :
          highActorHandles[i] = PlayerID /\ i < hIdx
    /\ Len(lastPublished) >= 2
    /\ lastPublished[1].isPlayer
    /\ lastPublished[1].formID = PlayerID

\* C20 as stated: a cache entry leaves the cache only in the eviction sweep,
\* its last-seen frame being older than the grace window; no other step,
\* a settings reload included, removes an entry.
C20_SweepSoleDestructor ==
    [][\A id \in DOMAIN s_cache \ DOMAIN s_cache' :
          /\ pcR = "labels" /\ pcR' = "idle"
          /\ GraceExpired(Sub32(s_frame, s_cache[id].lastSeenFrame))]_vars

\* C20 amended: a cache entry leaves the cache only in the eviction sweep,
\* its last-seen frame being older than the grace window, or at the start of
\* a Draw in which the reload key goes down, and that reload empties the
\* whole cache.
C20_SweepOrReload ==
    [][\A id \in DOMAIN s_cache \ DOMAIN s_cache' :
          \/ /\ pcR = "labels" /\ pcR' = "idle"
             /\ GraceExpired(Sub32(s_frame, s_cache[id].lastSeenFrame))
          \/ /\ pcR = "idle"
             /\ Settings.ReloadKey > 0
             /\ ~s_reloadKeyWasDown /\ s_reloadKeyWasDown'
             /\ DOMAIN s_cache' = {}]_vars

\* C20 witness: a reload has just removed the entries of the player and of
\* an NPC, both seen on the frame before, and the frame goes on.
C20_Witness ==
    /\ pcR = "copy"
    /\ reloadErased = {PlayerID, 2}
    /\ DOMAIN s_cache = {}
    /\ s_frame > 2

\* C21: s_frame never decreases, and every call of Draw (a step of the
\* render thread from rest that touches the statics of Draw) increments it
\* exactly once, whatever CanDrawOverlay(), the post-load cooldown and the
\* renderer's availability.
C21_FrameCountsEveryDraw ==
    [][/\ ~ULess(s_frame', s_frame)
       /\ (pcR = "idle" /\ drawVars' # drawVars) => s_frame' = Inc32(s_frame)]_vars

\* C30: when the Producer takes an entry's cachedOccluded instead of calling
\* IsActorOccluded (a scan step that pushes a record without passing through
\* the occlusion check, culling being enabled), the entry's
\* lastOcclusionCheckFrame was written by a check (an entry exists only from
\* frame 1 on, so a check never writes the default 0) and that check is
\* fewer than OcclusionCheckInterval frames old.
C30_ReusedValueWasChecked ==
    [][(/\ pcG = "scan" /\ pcG' = "scan"
        /\ Settings.EnableOcclusionCulling
        /\ Len(tempBuf') = Len(tempBuf) + 1)
       => LET id == tempBuf'[Len(tempBuf')].formID
          IN /\ id \in DOMAIN s_cache
             /\ s_cache[id].lastOcclusionCheckFrame # 0
             /\ s_frame - s_cache[id].lastOcclusionCheckFrame
                   < Settings.OcclusionCheckInterval]_vars

C23_ManualDisable ==
    /\ [][s_manualEnabled' # s_manualEnabled
            => /\ hooks'.toggleFound = s_manualEnabled
               /\ hooks'.toggleResult = ~s_manualEnabled
               /\ s_manualEnabled' = hooks'.toggleResult]_vars
    /\ [](~s_manualEnabled => ~IsOverlayAllowedRT)
    /\ []((hooks.frame.postDisplay /\ ~hooks.frame.enabledAtStart)
            => /\ hooks.frame.byPostDisplay = 0
               /\ hooks.frame.byPresent = 0)

\* C23 witness: the last toggle returned false, and a frame whose
\* PostDisplay hook ran after it was presented without the overlay although
\* the initialization is complete, the game state allows the overlay and no
\* cooldown is running.
C23_Witness ==
    /\ ~s_manualEnabled
    /\ ~hooks.toggleResult
    /\ hooks.imgui
    /\ canDraw /\ s_allowOverlay
    /\ s_postLoadCooldown = 0
    /\ s_frame >= 1
    /\ hooks.frame.postDisplay /\ ~hooks.frame.enabledAtStart
    /\ hooks.frame.presented
    /\ hooks.frame.byPostDisplay + hooks.frame.byPresent = 0

\* C28: in every presented frame in which the overlay should be rendered
\* (the initialization being complete) Draw is called exactly once, from the
\* PostDisplay hook if it ran in the frame and else from the Present hook;
\* in no frame is it called more than once.
C28_DrawnOncePerFrame ==
    /\ hooks.frame.byPostDisplay + hooks.frame.byPresent <= 1
    /\ (hooks.imgui /\ hooks.frame.presented /\ hooks.frame.wanted)
          => /\ hooks.frame.byPostDisplay + hooks.frame.byPresent = 1
             /\ hooks.frame.postDisplay <=> hooks.frame.byPostDisplay = 1

\* C29: the initialized flag is set only when the ImGui context and both
\* backends are initialized, the initialization body runs at most once, and
\* no ImGui frame code runs without a completed initialization.
C29_InitializedMeansReady ==
    /\ hooks.initialized => hooks.imgui
    /\ hooks.inits <= 1
    /\ ~hooks.bare

\* C27: IsActorOccluded returns the answer of the first check that applies:
\* culling disabled or a reference missing: not occluded; no camera: not
\* occluded; closer than kCloseDistanceThreshold: not occluded; dot product
\* below -0.2: occluded, whatever the line-of-sight answer; otherwise
\* occluded exactly when the query succeeded and reported no line of sight.
C27_CheckOrder ==
    call.fn = "IsActorOccluded"
    => LET a == call.args
       IN call.result =
            (IF ~a.enabled \/ ~a.actorOk \/ ~a.playerOk THEN FALSE
             ELSE IF ~a.cameraOk THEN FALSE
             ELSE IF a.dist < kCloseDistanceThreshold THEN FALSE
             ELSE IF a.dot10 < kBehindCameraDotThreshold THEN TRUE
             ELSE a.losOk /\ ~a.los)

\* C27 witness: an actor beyond the close range and behind the camera is
\* reported occluded although the line-of-sight query would succeed and
\* report a clear line.
C27_Witness ==
    /\ call.fn = "IsActorOccluded"
    /\ call.args.enabled /\ call.args.actorOk /\ call.args.playerOk
    /\ call.args.cameraOk
    /\ call.args.dist > kCloseDistanceThreshold
    /\ call.args.dot10 = kBehindCameraDotThreshold - 1
    /\ call.args.losOk /\ call.args.los
    /\ call.result

C24_LoadNeverThrows ==
    call.fn = "Load"
    => /\ call.pc # "thrown"
       /\ call.last.failed => call.last.stored = call.last.default

\* the quoted texts that are not a title, in order, as main-line segments
RECURSIVE C26_Segments(_)
C26_Segments(texts) ==
    IF texts = << >> THEN << >>
    ELSE (IF Contains(Head(texts), "%", "t") THEN << >>
          ELSE <<[format |-> Head(texts),
                  useLevelFont |-> Contains(Head(texts), "%", "l")]>>)
         \o C26_Segments(Tail(texts))

\* C26: scanning a Format value gives one main-line segment per quoted
\* string, in input order and with the escaped characters taken literally,
\* whose level-font flag is set exactly when the string contains %l; a quoted
\* string containing %t becomes the title format and no segment; characters
\* outside the quotes change nothing; a value without a quoted string gives
\* no segment and leaves the format as it was.
C26_FormatScan ==
    call.fn = "ParseFormat"
    => LET texts == call.texts
           titles == {k \in 1..Len(texts) : Contains(texts[k], "%", "t")}
           last == CHOOSE k \in titles : \A j \in titles : j <= k
       IN /\ call.result.newDisplayFormat = C26_Segments(texts)
          /\ call.result.titleFound = (titles # {})
          /\ titles # {} => call.result.TitleFormat = texts[last]
          /\ C26_Segments(texts) # << >>
                => call.result.DisplayFormat = C26_Segments(texts)
          /\ texts = << >>
                => /\ call.result.newDisplayFormat = << >>
                   /\ call.result.TitleFormat = call.before.TitleFormat
                   /\ call.result.DisplayFormat = call.before.DisplayFormat

\* C26 witness: the value  t"%t"t"\""t  was scanned: its title is %t and
\* its only segment is the escaped quote, without the level font.
C26_Witness ==
    /\ call.fn = "ParseFormat"
    /\ call.val = <<"t", Quote, "%", "t", Quote,
                    "t", Quote, Backslash, Quote, Quote, "t">>
    /\ call.result.TitleFormat = <<"%", "t">>
    /\ call.result.DisplayFormat =
           <<[format |-> <<Quote>>, useLevelFont |-> FALSE]>>
====
